---- MODULE Spec2Model ----
(***************************************************************************)
(* Persistent browser service: the shared Playwright context/page, the     *)
(* p-queue that serialises jobs against it, the /reset handler and the     *)
(* context close event, as one state machine.  Every action is one stretch *)
(* of JavaScript that runs without suspending: from the resolution of one  *)
(* await to the next await (or to the end of the handler).                 *)
(*                                                                         *)
(* Several views share the module.  The service view (Spec, FairSpec)      *)
(* follows several jobs and resets through the queue and the session and   *)
(* keeps of a handler only its position.  The handler view (HandlerSpec)   *)
(* follows one route handler at a time against one document and keeps the  *)
(* values: the classifier's verdict, the extracted data and the HTTP       *)
(* answer.  The parallel view (ParallelSpec) is the service started with   *)
(* CONCURRENCY above one.  The router view (RouterSpec) puts authenticate   *)
(* and GET /health in front of the service.  The collector view            *)
(* (CollectorSpec, CollectorFairSpec) follows the function /maps evaluates *)
(* in the page, pass by pass, on a panel that re-renders.  The results     *)
(* view (ResultsSpec) follows the result scan of /search and               *)
(* fillMissingSnippets.  The headers view (HeadersSpec) follows the extra  *)
(* HTTP headers of the shared page from job to job.  The validation view   *)
(* (ValidationSpec) puts the test of the required field in front of        *)
(* runJob.                                                                 *)
(***************************************************************************)
EXTENDS Integers, Sequences, FiniteSets, TLC

\* ---------------------------------------------------------------- bounds
NumJobs == 3        \* requests submitted to runJob
NumResets == 2      \* POST /reset requests
MaxCtx == 3         \* contexts the driver is able to launch
MaxPage == 3        \* pages the driver is able to open
MaxCrash == 1       \* unexpected deaths of a context
MaxRequests == 4    \* HTTP requests (jobs and resets together) the service receives

\* ------------------------------------------------------------- constants
CONCURRENCY == 1    \* Number(process.env.CONCURRENCY || 1)
Configured == "secret"   \* a value of process.env.API_KEY that is not empty

Jobs == 1..NumJobs
Resets == 1..NumResets
Ctxs == 1..MaxCtx
Pages == 1..MaxPage

VARIABLES
    context,      \* module variable `context`: 0 is undefined, else a context id
    sharedPage,   \* module variable `sharedPage`: 0 is undefined, else a page id
    ctxState,     \* driver: context id -> "none" | "live" | "closing" | "closed"
    ctxHandler,   \* driver: context id -> the 'close' listener is registered
    closeReq,     \* driver: context id -> number of context.close() calls received
    pageState,    \* driver: page id -> "none" | "open" | "closing" | "closed"
    pageCtx,      \* driver: page id -> context that created it (0 if none)
    queue,        \* p-queue: waiting jobs, in admission order
    pending,      \* p-queue: number of jobs in flight
    jobs,         \* job id -> record of the request and of the closure's position
    resets,       \* reset id -> record of the /reset handler's position
    crashes,      \* number of unexpected deaths so far
    startSeq,     \* history: job ids in the order their closures started
    doneSeq,      \* history: job ids in the order their closures settled
    resetsDone,   \* history: number of /reset handlers that have answered
    stalePages,   \* history: pages handed to a job before the last reset answered
    staleCtxs,    \* history: contexts handed to a job before the last reset answered
    tornPages,    \* history: pages closed by a reset that has answered
    tornCtxs,     \* history: contexts closed by a reset that has answered
    document,     \* handler view: the document the page shows once navigation is over
    handler,      \* handler view: one route handler, from the request to its answer
    env,          \* process.env as read at start-up: CONCURRENCY and API_KEY
    answered,     \* history: statuses of the requests answered at once: 401, 500, 200 (health)
    collector,    \* collector view: the /maps callback evaluated in the page
    cards,        \* collector view: the result anchors the panel renders now
    scan,         \* results view: the /search callback evaluated in the page
    fill,         \* results view: one call of fillMissingSnippets
    extraHeaders, \* headers view: the extra HTTP headers set on the shared page
    visit         \* headers view: the job that runs on the shared page

vars == <<context, sharedPage, ctxState, ctxHandler, closeReq, pageState, pageCtx,
          queue, pending, jobs, resets, crashes, startSeq, doneSeq, resetsDone,
          stalePages, staleCtxs, tornPages, tornCtxs, document, handler,
          env, answered, collector, cards, scan, fill,
          extraHeaders, visit>>

driverVars == <<ctxState, ctxHandler, closeReq, pageState, pageCtx>>
histVars == <<resetsDone, stalePages, staleCtxs, tornPages, tornCtxs>>
handlerVars == <<document, handler>>
configVars == <<env, answered>>
collectorVars == <<collector, cards>>
resultsVars == <<scan, fill>>
headerVars == <<extraHeaders, visit>>

\* ------------------------------------------------------------- requests
\* The request bodies the model submits: the steps of a handler depend only on
\* which optional parts of the body are present.
FetchMin == [kind |-> "fetch", waitForSelector |-> FALSE, waitForTimeout |-> FALSE,
             extract |-> FALSE, returnHtml |-> FALSE, evaluateScript |-> FALSE,
             includeTopStories |-> FALSE]
FetchFull == [kind |-> "fetch", waitForSelector |-> TRUE, waitForTimeout |-> TRUE,
              extract |-> TRUE, returnHtml |-> TRUE, evaluateScript |-> TRUE,
              includeTopStories |-> FALSE]
SearchReq == [kind |-> "search", waitForSelector |-> TRUE, waitForTimeout |-> FALSE,
              extract |-> FALSE, returnHtml |-> FALSE, evaluateScript |-> FALSE,
              includeTopStories |-> TRUE]
MapsReq == [kind |-> "maps", waitForSelector |-> TRUE, waitForTimeout |-> TRUE,
            extract |-> FALSE, returnHtml |-> FALSE, evaluateScript |-> FALSE,
            includeTopStories |-> FALSE]
Requests == {FetchMin, FetchFull, SearchReq, MapsReq}

Opt(b, s) == IF b THEN <<s>> ELSE <<>>

\* Variant: /fetch extracts the fields before it looks for a blocker.
FetchStepsExtractFirst(req) ==
    <<"setExtraHTTPHeaders", "bringToFront", "goto">>
    \o Opt(req.waitForSelector, "waitForSelector")
    \o Opt(req.waitForTimeout, "waitForTimeout")
    \o Opt(req.extract, "extract")
    \o <<"detectAccessBlocker">>
    \o Opt(req.returnHtml, "content")
    \o Opt(req.evaluateScript, "evaluateScript")

\* The awaited calls of each handler, in program order.
FetchSteps(req) ==
    <<"setExtraHTTPHeaders", "bringToFront", "goto">>
    \o Opt(req.waitForSelector, "waitForSelector")
    \o Opt(req.waitForTimeout, "waitForTimeout")
    \o <<"detectAccessBlocker">>
    \o Opt(req.extract, "extract")
    \o Opt(req.returnHtml, "content")
    \o Opt(req.evaluateScript, "evaluateScript")

SearchSteps(req) ==
    <<"goto", "waitForSelector">>
    \o Opt(req.waitForTimeout, "waitForTimeout")
    \o <<"detectAccessBlocker", "results", "fillMissingSnippets">>
    \o Opt(req.includeTopStories, "topStories")
    \o Opt(req.returnHtml, "content")
    \o <<"aiOverview">>

MapsSteps(req) ==
    <<"goto", "waitForSelector">>
    \o Opt(req.waitForTimeout, "waitForTimeout")
    \o <<"detectAccessBlocker", "collect">>
    \o Opt(req.returnHtml, "content")

Steps(req) ==
    CASE req.kind = "fetch" -> FetchSteps(req)
      [] req.kind = "search" -> SearchSteps(req)
      [] OTHER -> MapsSteps(req)

\* Variant: a failure of the classifier's page evaluation is not swallowed.
CaughtNotClassifier(req, s) ==
    \/ s = "bringToFront"
    \/ s = "waitForSelector" /\ req.kind # "fetch"

\* Variant: a failed navigation is swallowed like a failed selector wait.
CaughtGotoToo(req, s) ==
    \/ s = "detectAccessBlocker"
    \/ s = "bringToFront"
    \/ s = "goto"
    \/ s = "waitForSelector" /\ req.kind # "fetch"

\* Variant: an exception of the caller's script is swallowed and the script's
\* result left null.
CaughtScriptToo(req, s) ==
    \/ s = "detectAccessBlocker"
    \/ s = "bringToFront"
    \/ s = "evaluateScript"
    \/ s = "waitForSelector" /\ req.kind # "fetch"

\* A rejection of this awaited call is caught inside the handler.
Caught(req, s) ==
    \/ s = "detectAccessBlocker"
    \/ s = "bringToFront"
    \/ s = "waitForSelector" /\ req.kind # "fetch"

\* fillMissingSnippets uses the process's own fetch, not the page, and
\* swallows every error.
UsesPage(s) == s # "fillMissingSnippets"

\* ------------------------------------------------------------- documents
\* The handler view follows one route handler against one document.  A
\* document is what the page shows: elements, fragments of body text and
\* fragments of markup.
MaxNodes == 3       \* parts (elements, text fragments, markup fragments) of a document
MaxItems == 2       \* items of an `extract` list

\* banner:         <div id="onetrust-banner-sdk">
\* widget:         <div class="g-recaptcha">
\* challengeFrame: <iframe src="https://geo.example/captcha/check">
\* adFrame:        <iframe src="https://ads.example/frame">
\* title:          <h1>Title</h1>
\* link:           <a class="more" href="/more">More</a>
\* card:           a result card of a search or maps page
Elements == {"banner", "widget", "challengeFrame", "adFrame", "title", "link", "card"}

\* Fragments of document.body.innerText, as the page spells them.
Fragments == {"We use cookies", "Are you a robot"}

\* Fragments of document.documentElement.innerHTML.
Markers == {"cf-chl-widget"}

Documents ==
    {d \in [els : SUBSET Elements, text : SUBSET Fragments, html : SUBSET Markers] :
        Cardinality(d.els) + Cardinality(d.text) + Cardinality(d.html) <= MaxNodes}

NoDocument == [els |-> {}, text |-> {}, html |-> {}]

\* Selectors the browser refuses to parse: querySelector throws on them.
Malformed == {"div["}

\* The elements a well-formed selector selects.
Selects(sel) ==
    CASE sel = "#onetrust-banner-sdk" -> {"banner"}
      [] sel = ".g-recaptcha" -> {"widget"}
      [] sel = "iframe" -> {"challengeFrame", "adFrame"}
      [] sel = "h1" -> {"title"}
      [] sel = "a.more" -> {"link"}
      [] sel \in {"#search", "#search .g", "a.hfpxzc", ".Nv2PK"} -> {"card"}
      [] OTHER -> {}

Null == "null"
Thrown == "thrown"

\* document.querySelector(sel): an element, null, or an exception.  No
\* selector of the model selects two elements of one document but "iframe",
\* which only querySelectorAll is given.
querySelector(doc, sel) ==
    IF sel \in Malformed THEN Thrown
    ELSE IF Selects(sel) \cap doc.els = {} THEN Null
    ELSE CHOOSE e \in Selects(sel) \cap doc.els : TRUE

\* el.getAttribute('src') || '' of an iframe.
Src(el) ==
    CASE el = "challengeFrame" -> "https://geo.example/captcha/check"
      [] el = "adFrame" -> "https://ads.example/frame"
      [] OTHER -> ""

\* /recaptcha|hcaptcha|turnstile|challenges\.cloudflare\.com|cf\.tw|\/captcha/i.test(src)
IsChallengeSrc(src) == src = "https://geo.example/captcha/check"

\* String.prototype.toLowerCase on the fragments of the model.
toLower(t) ==
    CASE t = "We use cookies" -> "we use cookies"
      [] t = "Are you a robot" -> "are you a robot"
      [] OTHER -> t

bodyText(doc) == {toLower(t) : t \in doc.text}
htmlText(doc) == {toLower(t) : t \in doc.html}

\* ------------------------------------------------------------- classifier
\* The catalogs of detectAccessBlocker, each represented by entries of the
\* source's list, in the source's order.
cookieSelectors == <<"#onetrust-banner-sdk", ".cookie-banner">>
cookiePhrases == <<"we use cookies", "cookie policy">>
captchaSelectors == <<"#captcha", ".g-recaptcha", "iframe[src*=\"recaptcha\"]">>
captchaPhrases == <<"please verify you are human", "are you a robot">>
cloudflareMarkerList == <<"cf-browser-verification", "cf-chl-widget", "cf_clearance">>

\* selectors.filter(selector => { try { return Boolean(querySelector) } catch { return false } })
collectSelectors(doc, selectors) ==
    SelectSeq(selectors, LAMBDA sel : querySelector(doc, sel) \notin {Null, Thrown})

\* phrases.filter(phrase => bodyText.includes(phrase))
collectPhrases(doc, phrases) ==
    SelectSeq(phrases, LAMBDA phrase : phrase \in bodyText(doc))

\* Variant: one present selector is not enough, every required one must be there.
missingRequiredAny(doc, requiredSelectors) ==
    /\ Len(requiredSelectors) > 0
    /\ \E i \in 1..Len(requiredSelectors) :
          querySelector(doc, requiredSelectors[i]) \in {Null, Thrown}

\* Variant: a required selector that throws counts as present.
missingRequiredThrowIsPresent(doc, requiredSelectors) ==
    /\ Len(requiredSelectors) > 0
    /\ \A i \in 1..Len(requiredSelectors) :
          querySelector(doc, requiredSelectors[i]) = Null

\* requiredSelectors.length > 0 && requiredSelectors.every(absent or throwing)
missingRequired(doc, requiredSelectors) ==
    /\ Len(requiredSelectors) > 0
    /\ \A i \in 1..Len(requiredSelectors) :
          querySelector(doc, requiredSelectors[i]) \in {Null, Thrown}

\* The iframes of the document in document order.
Iframes(doc) == SelectSeq(<<"challengeFrame", "adFrame">>, LAMBDA e : e \in doc.els)

\* Array.from(querySelectorAll('iframe')).map(src).filter(regex)
captchaIframeSources(doc) ==
    SelectSeq([i \in 1..Len(Iframes(doc)) |-> Src(Iframes(doc)[i])], IsChallengeSrc)

cloudflareMarkers(doc) ==
    \E i \in 1..Len(cloudflareMarkerList) : cloudflareMarkerList[i] \in htmlText(doc)

cookieFires(doc) ==
    Len(collectSelectors(doc, cookieSelectors)) > 0
    \/ Len(collectPhrases(doc, cookiePhrases)) > 0

\* Variant: only the selector catalog is consulted for a CAPTCHA.
captchaFiresSelectorsOnly(doc) ==
    Len(collectSelectors(doc, captchaSelectors)) > 0

captchaFires(doc) ==
    \/ Len(collectSelectors(doc, captchaSelectors)) > 0
    \/ Len(collectPhrases(doc, captchaPhrases)) > 0
    \/ Len(captchaIframeSources(doc)) > 0
    \/ cloudflareMarkers(doc)

\* `return null` of the evaluated function.
NoVerdict == [type |-> Null]

cookieVerdict(doc, requiredSelectors) ==
    [type |-> "cookie",
     selectors |-> collectSelectors(doc, cookieSelectors),
     phrases |-> collectPhrases(doc, cookiePhrases),
     missingRequired |-> missingRequired(doc, requiredSelectors)]

captchaVerdict(doc, requiredSelectors) ==
    [type |-> "captcha",
     selectors |-> collectSelectors(doc, captchaSelectors),
     phrases |-> collectPhrases(doc, captchaPhrases),
     iframes |-> captchaIframeSources(doc),
     missingRequired |-> missingRequired(doc, requiredSelectors)]

unknownVerdict(requiredSelectors) ==
    [type |-> "unknown", selectors |-> requiredSelectors, missingRequired |-> TRUE]

\* Variant: the CAPTCHA catalog is consulted before the cookie catalog.
detectCaptchaFirst(doc, requiredSelectors) ==
    IF captchaFires(doc) THEN captchaVerdict(doc, requiredSelectors)
    ELSE IF cookieFires(doc) THEN cookieVerdict(doc, requiredSelectors)
    ELSE IF missingRequired(doc, requiredSelectors) THEN unknownVerdict(requiredSelectors)
    ELSE NoVerdict

\* The function detectAccessBlocker evaluates in the page.
detectAccessBlocker(doc, requiredSelectors) ==
    IF cookieFires(doc) THEN cookieVerdict(doc, requiredSelectors)
    ELSE IF captchaFires(doc) THEN captchaVerdict(doc, requiredSelectors)
    ELSE IF missingRequired(doc, requiredSelectors) THEN unknownVerdict(requiredSelectors)
    ELSE NoVerdict

\* ------------------------------------------------------------- extraction
\* node.innerText
innerText(el) ==
    CASE el = "title" -> "Title"
      [] el = "link" -> "More"
      [] OTHER -> ""

\* node.getAttribute(attr): null when the element has no such attribute.
getAttribute(el, attr) ==
    IF el = "link" /\ attr = "href" THEN "/more"
    ELSE IF el = "link" /\ attr = "class" THEN "more"
    ELSE Null

\* `attr = 'innerText'` in the parameter list: the default of an absent attr.
Absent == ""
AttrOf(item) == IF item.attr = Absent THEN "innerText" ELSE item.attr

\* data[name] = value
Assign(data, name, value) ==
    [n \in DOMAIN data \cup {name} |-> IF n = name THEN value ELSE data[n]]

\* Variant: an item whose selector matches nothing leaves no entry.
extractItemSkipsMissing(doc, data, item) ==
    LET node == querySelector(doc, item.selector) IN
    IF node = Thrown THEN [thrown |-> TRUE, data |-> data]
    ELSE IF node = Null THEN [thrown |-> FALSE, data |-> data]
    ELSE [thrown |-> FALSE,
          data |-> Assign(data, item.name,
                          IF AttrOf(item) = "innerText" THEN innerText(node)
                          ELSE getAttribute(node, AttrOf(item)))]

\* The callback of items.forEach in the function /fetch evaluates for `extract`.
extractItem(doc, data, item) ==
    LET node == querySelector(doc, item.selector) IN
    IF node = Thrown THEN [thrown |-> TRUE, data |-> data]
    ELSE IF node = Null THEN [thrown |-> FALSE, data |-> Assign(data, item.name, Null)]
    ELSE [thrown |-> FALSE,
          data |-> Assign(data, item.name,
                          IF AttrOf(item) = "innerText" THEN innerText(node)
                          ELSE getAttribute(node, AttrOf(item)))]

\* items.forEach(...) from item i on: an exception of the callback ends the
\* loop and is the exception of the whole evaluation.
RECURSIVE extractFrom(_, _, _, _)
extractFrom(doc, items, i, data) ==
    IF i > Len(items) THEN [thrown |-> FALSE, data |-> data]
    ELSE LET r == extractItem(doc, data, items[i]) IN
         IF r.thrown THEN r ELSE extractFrom(doc, items, i + 1, r.data)

NoData == [n \in {} |-> Null]

\* page.evaluate(items => {...}, extract) on the document.
extractAll(doc, items) == extractFrom(doc, items, 1, NoData)

\* ---------------------------------------------------------- request bodies
\* The bodies the handler view receives.  Besides the fields that decide the
\* steps they carry the values the steps use.
FetchBody(sel, required, items, html, script) ==
    [kind |-> "fetch", waitForSelector |-> sel # Absent, waitForTimeout |-> FALSE,
     extract |-> Len(items) > 0, returnHtml |-> html, evaluateScript |-> script # Absent,
     includeTopStories |-> FALSE,
     selector |-> sel, requiredSelectors |-> required, items |-> items, script |-> script]

SearchBody(topStories) ==
    [kind |-> "search", waitForSelector |-> TRUE, waitForTimeout |-> FALSE,
     extract |-> FALSE, returnHtml |-> FALSE, evaluateScript |-> FALSE,
     includeTopStories |-> topStories,
     selector |-> "#search",
     requiredSelectors |-> <<"#search .g", "#search .tF2Cxc", "#search .Gx5Zad">>,
     items |-> <<>>, script |-> Absent]

MapsBody ==
    [kind |-> "maps", waitForSelector |-> TRUE, waitForTimeout |-> TRUE,
     extract |-> FALSE, returnHtml |-> FALSE, evaluateScript |-> FALSE,
     includeTopStories |-> FALSE,
     selector |-> "a.hfpxzc",
     requiredSelectors |-> <<"a.hfpxzc[href*=\"/place/\"]", ".Nv2PK", ".lMbq3e">>,
     items |-> <<>>, script |-> Absent]

Items == [name : {"a", "b"}, selector : {"h1", "a.more", "div["}, attr : {Absent, "href"}]

ItemLists == UNION {[1..n -> Items] : n \in 0..MaxItems}

RequiredLists == {<<>>, <<"h1">>, <<"a.more", "h1">>, <<"div[", "h1">>, <<"div[">>}

\* The caller's script, by what it does when evaluated.
Scripts == {"returns", "throws"}

HandlerRequests ==
    {FetchBody(sel, required, <<>>, FALSE, Absent) :
        sel \in {Absent, "h1"}, required \in RequiredLists}
    \cup {FetchBody(Absent, <<>>, items, FALSE, Absent) : items \in ItemLists}
    \cup {FetchBody(Absent, <<"h1">>, items, html, script) :
            items \in {<<>>, <<[name |-> "a", selector |-> "h1", attr |-> Absent]>>},
            html \in BOOLEAN, script \in Scripts}
    \cup {SearchBody(t) : t \in BOOLEAN}
    \cup {MapsBody}

NoJob == [pc |-> "new", req |-> FetchMin, step |-> 0, ctx |-> 0, page |-> 0,
          launched |-> 0, outcome |-> "none", epoch |-> 0]
NoReset == [pc |-> "new", page |-> 0, ctx |-> 0, outcome |-> "none", seen |-> 0]

\* The /maps callback before it is evaluated.
NoCollector == [pc |-> "idle", maxResults |-> 0, enableScroll |-> FALSE, panel |-> FALSE,
                collected |-> <<>>, iterations |-> 0, scrolls |-> 0, results |-> <<>>]

\* The /search callback before it is evaluated.
NoScan == [pc |-> "idle", maxResults |-> 0, cards |-> <<>>, picked |-> <<>>, items |-> <<>>]

\* fillMissingSnippets before it is called.
NoFill == [pc |-> "idle", results |-> <<>>, items |-> <<>>, i |-> 0, attempts |-> 0,
           fetches |-> 0]

\* No job runs on the shared page, which is the first one opened.
NoVisit == [pc |-> "idle", kind |-> "fetch", own |-> {}, sent |-> {}, page |-> 1, n |-> 0]

NoHandler == [pc |-> "idle", req |-> FetchMin, step |-> 0, ran |-> <<>>, caught |-> {},
              failed |-> Absent, threw |-> FALSE, blocker |-> NoVerdict,
              extracted |-> NoData,
              evaluated |-> Null, html |-> Absent, results |-> <<>>,
              status |-> 0, body |-> NoData]

\* The state after the module has loaded under the environment e.
InitWith(e) ==
    /\ env = e
    /\ answered = <<>>
    /\ collector = NoCollector
    /\ cards = <<>>
    /\ scan = NoScan
    /\ fill = NoFill
    /\ extraHeaders = {}
    /\ visit = NoVisit
    /\ context = 0
    /\ sharedPage = 0
    /\ ctxState = [c \in Ctxs |-> "none"]
    /\ ctxHandler = [c \in Ctxs |-> FALSE]
    /\ closeReq = [c \in Ctxs |-> 0]
    /\ pageState = [p \in Pages |-> "none"]
    /\ pageCtx = [p \in Pages |-> 0]
    /\ queue = <<>>
    /\ pending = 0
    /\ jobs = [j \in Jobs |-> NoJob]
    /\ resets = [r \in Resets |-> NoReset]
    /\ crashes = 0
    /\ startSeq = <<>>
    /\ doneSeq = <<>>
    /\ resetsDone = 0
    /\ stalePages = {}
    /\ staleCtxs = {}
    /\ tornPages = {}
    /\ tornCtxs = {}
    /\ document = NoDocument
    /\ handler = NoHandler

\* The service as it is deployed: the default concurrency and a key configured.
Init == InitWith([CONCURRENCY |-> CONCURRENCY, API_KEY |-> Configured])


\* ------------------------------------------------------- driver queries
\* page.isClosed()
PageIsClosed(p) == pageState[p] = "closed"

\* context.isClosed()
CtxIsClosed(c) == ctxState[c] = "closed"

\* context.browser().isConnected(): true for a live context, false for a
\* closed one; while the context is going down the driver may answer either.
IsConnected(c) ==
    CASE ctxState[c] = "live" -> {TRUE}
      [] ctxState[c] = "closing" -> {TRUE, FALSE}
      [] OTHER -> {FALSE}

\* The outcomes the driver can give to a call on page p: a closed page (or a
\* page of a closed context) rejects; an open page of a live context may
\* succeed or reject (timeout, script exception).
PageCallOutcomes(p) ==
    IF pageState[p] = "closed" \/ ctxState[pageCtx[p]] = "closed"
    THEN {"reject"}
    ELSE {"ok", "reject"}

\* The outcomes of a call on context c (addInitScript, newPage).
CtxCallOutcomes(c) ==
    CASE ctxState[c] = "live" -> {"ok", "reject"}
      [] ctxState[c] = "closing" -> {"ok", "reject"}
      [] OTHER -> {"reject"}

\* The HTTP requests received so far.
NumRequests ==
    Cardinality({j \in Jobs : jobs[j].pc # "new"})
    + Cardinality({r \in Resets : resets[r].pc # "new"})

NumCtxs == Cardinality({c \in Ctxs : ctxState[c] # "none"})
NumPages == Cardinality({p \in Pages : pageState[p] # "none"})

\* ---------------------------------------------------------------- p-queue
\* Variant: the slot test is off by one and admits one closure too many.
CanStartOneTooMany(p) == p <= env.CONCURRENCY

\* Variant: the slot test is off by one the other way.
CanStartOneTooFew(p) == p < env.CONCURRENCY - 1

\* tryToStartAnother: a waiting job starts only while a slot is free.
CanStart(p) == p < env.CONCURRENCY

\* Variant: the queue hands out the job added last.
NextJobLifo(q) == q[Len(q)]

\* The queue hands out its jobs first in, first out.
NextJob(q) == Head(q)

\* ------------------------------------------------------------ acquisition
\* getSharedPage once launchBrowser has resolved with ctx: reuse the shared
\* page when it is recorded and not closed, open a new one otherwise.
AfterLaunch(jrec, ctx) ==
    IF sharedPage = 0 \/ PageIsClosed(sharedPage)
    THEN [jrec EXCEPT !.pc = "newPage", !.ctx = ctx]
    ELSE [jrec EXCEPT !.pc = "run", !.step = 1, !.ctx = ctx, !.page = sharedPage]

\* The closure of runJob from its start to its first suspension: launchBrowser
\* returns the recorded context when its browser is connected and launches a
\* new one otherwise.
StartSet(jrec) ==
    LET j0 == [jrec EXCEPT !.epoch = resetsDone] IN
    IF context = 0
    THEN {[j0 EXCEPT !.pc = "launch"]}
    ELSE {IF conn THEN AfterLaunch(j0, context) ELSE [j0 EXCEPT !.pc = "launch"] :
             conn \in IsConnected(context)}

\* queue.add: the job is enqueued, then tryToStartAnother starts the next
\* waiting job if a slot is free.
Submit(j, req) ==
    /\ jobs[j].pc = "new"
    /\ \A k \in Jobs : k < j => jobs[k].pc # "new"
    /\ NumRequests < MaxRequests
    /\ LET queued == [jobs EXCEPT ![j] = [@ EXCEPT !.req = req, !.pc = "queued"]]
           q1 == Append(queue, j)
       IN
       IF CanStart(pending)
       THEN LET h == NextJob(q1) IN
            /\ \E s \in StartSet(queued[h]) : jobs' = [queued EXCEPT ![h] = s]
            /\ queue' = SelectSeq(q1, LAMBDA k : k # h)
            /\ pending' = pending + 1
            /\ startSeq' = Append(startSeq, h)
       ELSE /\ jobs' = queued
            /\ queue' = q1
            /\ UNCHANGED <<pending, startSeq>>
    /\ UNCHANGED <<configVars, collectorVars, resultsVars, headerVars, handlerVars, context, sharedPage, driverVars, resets, crashes, doneSeq, histVars>>

\* Variant: a rejected closure skips the queue's `finally`: its slot is not
\* freed and the next job is not started.
FinishNoFinally(j, out) ==
    LET done == [NoJob EXCEPT !.pc = "done", !.outcome = out] IN
    /\ doneSeq' = Append(doneSeq, j)
    /\ IF queue # <<>> /\ CanStart(pending - 1) /\ out # "error"
       THEN LET h == NextJob(queue) IN
            /\ \E s \in StartSet(jobs[h]) :
                  jobs' = [jobs EXCEPT ![j] = done, ![h] = s]
            /\ queue' = SelectSeq(queue, LAMBDA k : k # h)
            /\ pending' = pending
            /\ startSeq' = Append(startSeq, h)
       ELSE /\ jobs' = [jobs EXCEPT ![j] = done]
            /\ pending' = IF out = "error" THEN pending ELSE pending - 1
            /\ UNCHANGED <<queue, startSeq>>

\* The closure of job j settles with outcome out: the handler's result or
\* error goes to j's caller, the slot is freed and the next waiting job, if
\* any, is started.
Finish(j, out) ==
    LET done == [NoJob EXCEPT !.pc = "done", !.outcome = out] IN
    /\ doneSeq' = Append(doneSeq, j)
    /\ IF queue # <<>> /\ CanStart(pending - 1)
       THEN LET h == NextJob(queue) IN
            /\ \E s \in StartSet(jobs[h]) :
                  jobs' = [jobs EXCEPT ![j] = done, ![h] = s]
            /\ queue' = SelectSeq(queue, LAMBDA k : k # h)
            /\ pending' = pending
            /\ startSeq' = Append(startSeq, h)
       ELSE /\ jobs' = [jobs EXCEPT ![j] = done]
            /\ pending' = pending - 1
            /\ UNCHANGED <<queue, startSeq>>

\* chromium.launchPersistentContext resolves or rejects.
LaunchDone(j) ==
    /\ jobs[j].pc = "launch"
    /\ \/ /\ NumCtxs < MaxCtx
          /\ LET c == NumCtxs + 1 IN
             /\ ctxState' = [ctxState EXCEPT ![c] = "live"]
             /\ context' = c
             /\ jobs' = [jobs EXCEPT ![j] = [@ EXCEPT !.pc = "initScript", !.launched = c]]
          /\ UNCHANGED <<sharedPage, ctxHandler, closeReq, pageState, pageCtx, queue,
                         pending, startSeq, doneSeq>>
       \/ /\ Finish(j, "error")
          /\ UNCHANGED <<context, sharedPage, driverVars>>
    /\ UNCHANGED <<configVars, collectorVars, resultsVars, headerVars, handlerVars, resets, crashes, histVars>>

\* context.addInitScript resolves or rejects; on success the close listener
\* is attached to whatever the module variable `context` holds by now, and
\* that value is what launchBrowser returns.
InitDone(j) ==
    /\ jobs[j].pc = "initScript"
    /\ \E r \in CtxCallOutcomes(jobs[j].launched) :
         IF r = "ok" /\ context # 0
         THEN /\ ctxHandler' = [ctxHandler EXCEPT ![context] = TRUE]
              /\ jobs' = [jobs EXCEPT ![j] = AfterLaunch(@, context)]
              /\ UNCHANGED <<queue, pending, startSeq, doneSeq>>
         ELSE /\ Finish(j, "error")
              /\ UNCHANGED ctxHandler
    /\ UNCHANGED <<configVars, collectorVars, resultsVars, headerVars, handlerVars, context, sharedPage, ctxState, closeReq, pageState, pageCtx,
                   resets, crashes, histVars>>

\* ctx.newPage resolves or rejects; on success the page is recorded in
\* sharedPage and handed to the handler, which runs to its first await.
NewPageDone(j) ==
    /\ jobs[j].pc = "newPage"
    /\ \E r \in CtxCallOutcomes(jobs[j].ctx) :
         IF r = "ok" /\ NumPages < MaxPage
         THEN LET p == NumPages + 1 IN
              /\ pageState' = [pageState EXCEPT ![p] = "open"]
              /\ pageCtx' = [pageCtx EXCEPT ![p] = jobs[j].ctx]
              /\ sharedPage' = p
              /\ jobs' = [jobs EXCEPT ![j] = [@ EXCEPT !.pc = "run", !.step = 1, !.page = p]]
              /\ UNCHANGED <<queue, pending, startSeq, doneSeq>>
         ELSE /\ Finish(j, "error")
              /\ UNCHANGED <<sharedPage, pageState, pageCtx>>
    /\ UNCHANGED <<configVars, collectorVars, resultsVars, headerVars, handlerVars, context, ctxState, ctxHandler, closeReq, resets, crashes, histVars>>


\* One awaited call of the handler settles and the handler runs on to its
\* next await, to its return or to its throw.
StepDone(j) ==
    /\ jobs[j].pc = "run"
    /\ LET req == jobs[j].req
           ss == Steps(req)
           i == jobs[j].step
           s == ss[i]
           advance ==
               IF i = Len(ss)
               THEN Finish(j, "result")
               ELSE /\ jobs' = [jobs EXCEPT ![j] = [@ EXCEPT !.step = i + 1]]
                    /\ UNCHANGED <<queue, pending, startSeq, doneSeq>>
       IN
       \E r \in (IF UsesPage(s) THEN PageCallOutcomes(jobs[j].page) ELSE {"ok"}) :
          \/ /\ r = "reject"
             /\ IF Caught(req, s) THEN advance ELSE Finish(j, "error")
          \/ /\ r = "ok"
             /\ s = "detectAccessBlocker"
             /\ Finish(j, "blocked")
          \/ /\ r = "ok"
             /\ advance
    /\ UNCHANGED <<configVars, collectorVars, resultsVars, headerVars, handlerVars, context, sharedPage, driverVars, resets, crashes, histVars>>

\* ------------------------------------------------------------------ reset
\* History kept in a reset's record: 1 + the number of closures started so
\* far if no closure is in flight now, -1 if one is.
Quiet ==
    IF \A j \in Jobs : jobs[j].pc \in {"new", "queued", "done"}
    THEN Len(startSeq) + 1
    ELSE -1

\* Variant: /reset calls context.close() without looking at context first.
NeedsCtxCloseAlways(c) == TRUE

\* The guard of /reset before context.close().
NeedsCtxClose(c) == c # 0 /\ ~CtxIsClosed(c)

\* The guard of /reset before sharedPage.close().
NeedsPageClose(p) == p # 0 /\ ~PageIsClosed(p)

\* res.json / res.status(500).json of /reset.
ResetAnswer(r, out) ==
    /\ resets' = [resets EXCEPT ![r] = [NoReset EXCEPT !.pc = "done", !.outcome = out]]
    /\ resetsDone' = resetsDone + 1
    /\ stalePages' = {p \in Pages : pageState[p] # "none"}
    /\ staleCtxs' = {c \in Ctxs : ctxState[c] # "none"}
    /\ tornPages' = tornPages \cup ({resets[r].page} \ {0})
    /\ tornCtxs' = tornCtxs \cup ({resets[r].ctx} \ {0})

\* /reset from `sharedPage = undefined` to its next await or its answer.
ResetAfterPage(r) ==
    /\ sharedPage' = 0
    /\ IF NeedsCtxClose(context)
       THEN IF context = 0
            THEN \* context.close() on undefined throws; the catch answers 500
                 /\ ResetAnswer(r, "error")
                 /\ UNCHANGED <<context, ctxState, closeReq>>
            ELSE /\ closeReq' = [closeReq EXCEPT ![context] = @ + 1]
                 /\ ctxState' = [ctxState EXCEPT ![context] =
                                    IF @ = "live" THEN "closing" ELSE @]
                 /\ resets' = [resets EXCEPT ![r] = [@ EXCEPT !.pc = "closeCtx",
                                                              !.ctx = context,
                                                              !.seen = IF @ = 0 THEN Quiet ELSE @]]
                 /\ UNCHANGED <<context, histVars>>
       ELSE /\ context' = 0
            /\ ResetAnswer(r, "ok")
            /\ UNCHANGED <<ctxState, closeReq>>

\* POST /reset arrives: it is not queued, it runs at once.
ResetStart(r) ==
    /\ resets[r].pc = "new"
    /\ \A k \in Resets : k < r => resets[k].pc # "new"
    /\ NumRequests < MaxRequests
    /\ IF NeedsPageClose(sharedPage)
       THEN IF sharedPage = 0
            THEN /\ ResetAnswer(r, "error")
                 /\ UNCHANGED <<context, sharedPage, ctxState, closeReq, pageState>>
            ELSE /\ pageState' = [pageState EXCEPT ![sharedPage] =
                                     IF @ = "open" THEN "closing" ELSE @]
                 /\ resets' = [resets EXCEPT ![r] = [@ EXCEPT !.pc = "closePage",
                                                              !.page = sharedPage,
                                                              !.seen = Quiet]]
                 /\ UNCHANGED <<context, sharedPage, ctxState, closeReq, histVars>>
       ELSE /\ ResetAfterPage(r)
            /\ UNCHANGED pageState
    /\ UNCHANGED <<configVars, collectorVars, resultsVars, headerVars, handlerVars, ctxHandler, pageCtx, queue, pending, jobs, crashes, startSeq, doneSeq>>

\* sharedPage.close() has settled (a rejection is swallowed by .catch).
ResetPageClosed(r) ==
    /\ resets[r].pc = "closePage"
    /\ pageState[resets[r].page] = "closed"
    /\ ResetAfterPage(r)
    /\ UNCHANGED <<configVars, collectorVars, resultsVars, headerVars, handlerVars, ctxHandler, pageState, pageCtx, queue, pending, jobs, crashes,
                   startSeq, doneSeq>>

\* context.close() has resolved: the reference is cleared and /reset answers.
ResetCtxClosed(r) ==
    /\ resets[r].pc = "closeCtx"
    /\ ctxState[resets[r].ctx] = "closed"
    /\ context' = 0
    /\ ResetAnswer(r, "ok")
    /\ UNCHANGED <<configVars, collectorVars, resultsVars, headerVars, handlerVars, sharedPage, driverVars, queue, pending, jobs, crashes, startSeq, doneSeq>>

\* ---------------------------------------------------------- driver events
\* A page whose close was requested finishes closing.
PageClosed(p) ==
    /\ pageState[p] = "closing"
    /\ pageState' = [pageState EXCEPT ![p] = "closed"]
    /\ UNCHANGED <<configVars, collectorVars, resultsVars, headerVars, handlerVars, context, sharedPage, ctxState, ctxHandler, closeReq, pageCtx, queue,
                   pending, jobs, resets, crashes, startSeq, doneSeq, histVars>>

\* The listener registered by launchBrowser: context.on('close', ...).
OnClose(c) ==
    IF ctxHandler[c]
    THEN context' = 0 /\ sharedPage' = 0
    ELSE UNCHANGED <<context, sharedPage>>

\* A context that is going down emits 'close': its pages are closed and the
\* listener, if registered, runs.
CloseEvent(c) ==
    /\ ctxState[c] = "closing"
    /\ ctxState' = [ctxState EXCEPT ![c] = "closed"]
    /\ pageState' = [p \in Pages |-> IF pageCtx[p] = c THEN "closed" ELSE pageState[p]]
    /\ OnClose(c)
    /\ UNCHANGED <<configVars, collectorVars, resultsVars, headerVars, handlerVars, ctxHandler, closeReq, pageCtx, queue, pending, jobs, resets, crashes,
                   startSeq, doneSeq, histVars>>

\* The browser behind a live context dies without anyone asking.
Die(c) ==
    /\ ctxState[c] = "live"
    /\ crashes < MaxCrash
    /\ ctxState' = [ctxState EXCEPT ![c] = "closing"]
    /\ crashes' = crashes + 1
    /\ UNCHANGED <<configVars, collectorVars, resultsVars, headerVars, handlerVars, context, sharedPage, ctxHandler, closeReq, pageState, pageCtx, queue,
                   pending, jobs, resets, startSeq, doneSeq, histVars>>

\* ---------------------------------------------------------- specification
Next ==
    \/ \E j \in Jobs, req \in Requests : Submit(j, req)
    \/ \E j \in Jobs : LaunchDone(j)
    \/ \E j \in Jobs : InitDone(j)
    \/ \E j \in Jobs : NewPageDone(j)
    \/ \E j \in Jobs : StepDone(j)
    \/ \E r \in Resets : ResetStart(r)
    \/ \E r \in Resets : ResetPageClosed(r)
    \/ \E r \in Resets : ResetCtxClosed(r)
    \/ \E p \in Pages : PageClosed(p)
    \/ \E c \in Ctxs : CloseEvent(c)
    \/ \E c \in Ctxs : Die(c)

Spec == Init /\ [][Next]_vars

\* Every awaited driver call of a closure settles (it returns or times out).
JobNext == \E j \in Jobs : LaunchDone(j) \/ InitDone(j) \/ NewPageDone(j) \/ StepDone(j)

FairSpec == Spec /\ WF_vars(JobNext)

\* The service started with CONCURRENCY above one: the queue then runs that
\* many closures side by side, each of them calling getSharedPage.
MaxConcurrency == 2

ParallelInit ==
    \E n \in 2..MaxConcurrency : InitWith([CONCURRENCY |-> n, API_KEY |-> Configured])

\* The parallel view follows the jobs only: no reset and no death of a context.
ParallelNext ==
    \/ \E j \in Jobs, req \in Requests : Submit(j, req)
    \/ JobNext

ParallelSpec == ParallelInit /\ [][ParallelNext]_vars


\* ----------------------------------------------------------- handler view
\* One route handler at a time against one document, with the values the
\* service view leaves out: the verdict, the extracted data and the answer.
\* The page it is given is the shared page; every awaited call may reject.
\* The slot of the queue is the only part of the service this view uses.
serviceVars == <<context, sharedPage, driverVars, queue, jobs, resets, crashes,
                 startSeq, doneSeq, histVars, configVars>>

\* The outcomes of the awaited call s on the document: it resolves ("ok"),
\* the driver rejects it ("reject": a timeout, a page that went away), or the
\* code evaluated in the page throws ("throw").
StepOutcomes(req, doc, s) ==
    CASE s = "waitForSelector" ->
            IF querySelector(doc, req.selector) \in {Null, Thrown}
            THEN {"reject"} ELSE {"ok", "reject"}
      [] s = "extract" ->
            IF extractAll(doc, req.items).thrown THEN {"throw", "reject"}
            ELSE {"ok", "reject"}
      [] s = "evaluateScript" ->
            IF req.script = "throws" THEN {"throw", "reject"} ELSE {"ok", "reject"}
      [] s = "fillMissingSnippets" -> {"ok"}
      [] OTHER -> {"ok", "reject"}

\* The result list /search and /maps build from the containers the document
\* holds: one entry for each, none when the selector matches nothing.
containers(doc, sel) ==
    LET hit == Selects(sel) \cap doc.els IN
    IF hit = {} THEN <<>> ELSE <<CHOOSE el \in hit : TRUE>>

buildBlockerPayload(blocker) == [blocked |-> TRUE, blocker |-> blocker]

\* The object the handler returns when no blocker was found.
ResultBody(h) ==
    IF h.req.kind = "fetch"
    THEN IF h.req.returnHtml
         THEN [extracted |-> h.extracted, evaluated |-> h.evaluated, html |-> h.html]
         ELSE [extracted |-> h.extracted, evaluated |-> h.evaluated]
    ELSE [results |-> h.results]

\* Variant: the route answers 200 whatever the handler returned.
StatusOfAlwaysOk(result) == 200

\* if (result && result.blocked) res.status(409) ... else 200
StatusOf(result) ==
    IF "blocked" \in DOMAIN result /\ result.blocked THEN 409 ELSE 200

\* The handler returns: runJob resolves and the route answers.
Return(h, result) ==
    [h EXCEPT !.pc = "answered", !.status = StatusOf(result), !.body = result]

\* The handler throws at step s: runJob rejects and the route's catch answers.
Throw(h, s, r) ==
    [h EXCEPT !.pc = "answered", !.failed = s, !.threw = (r = "throw"), !.status = 500,
              !.body = [error |-> "message"]]

\* The handler goes on to its next await, or to its return.
Advance(h) ==
    IF h.step = Len(Steps(h.req)) THEN Return(h, ResultBody(h))
    ELSE [h EXCEPT !.step = @ + 1]

\* The awaited call s has resolved.
Resolved(h, doc, s) ==
    CASE s = "detectAccessBlocker" ->
            LET blocker == detectAccessBlocker(doc, h.req.requiredSelectors) IN
            IF blocker # NoVerdict
            THEN Return([h EXCEPT !.blocker = blocker], buildBlockerPayload(blocker))
            ELSE Advance(h)
      [] s = "extract" -> Advance([h EXCEPT !.extracted = extractAll(doc, h.req.items).data])
      [] s = "results" -> Advance([h EXCEPT !.results = containers(doc, "#search .g")])
      [] s = "collect" -> Advance([h EXCEPT !.results = containers(doc, "a.hfpxzc")])
      [] s = "content" -> Advance([h EXCEPT !.html = "<html>"])
      [] s = "evaluateScript" -> Advance([h EXCEPT !.evaluated = "value"])
      [] OTHER -> Advance(h)

\* The awaited call s has rejected with r.
Rejected(h, s, r) ==
    IF Caught(h.req, s) THEN Advance([h EXCEPT !.caught = @ \cup {s}]) ELSE Throw(h, s, r)

\* A request arrives while none is being served: queue.add starts its
\* closure, a slot being free, and the handler runs to its first await; the
\* page shows doc once navigation is over.
HandleRequest ==
    /\ handler.pc = "idle"
    /\ CanStart(pending)
    /\ pending' = pending + 1
    /\ \E req \in HandlerRequests, doc \in Documents :
          /\ handler' = [handler EXCEPT !.pc = "run", !.req = req, !.step = 1]
          /\ document' = doc
    /\ UNCHANGED <<serviceVars, collectorVars, resultsVars, headerVars>>

\* The route's function has answered and returns: nothing of the request is
\* kept.
HandlerEnd ==
    /\ handler.pc = "answered"
    /\ handler' = NoHandler
    /\ document' = NoDocument
    /\ UNCHANGED <<pending, serviceVars, collectorVars, resultsVars, headerVars>>

\* The queue's `finally`: the slot is freed when the closure has settled.
SlotAfter(h, p) == IF h.pc = "answered" THEN p - 1 ELSE p

\* One awaited call of the handler settles and the handler runs on to its
\* next await or, its closure settling, to the answer.
HandlerStep ==
    /\ handler.pc = "run"
    /\ LET s == Steps(handler.req)[handler.step]
           h == [handler EXCEPT !.ran = Append(@, s)]
       IN
       \E r \in StepOutcomes(handler.req, document, s) :
          handler' = IF r = "ok" THEN Resolved(h, document, s) ELSE Rejected(h, s, r)
    /\ pending' = SlotAfter(handler', pending)
    /\ UNCHANGED <<document, serviceVars, collectorVars, resultsVars, headerVars>>

HandlerNext ==
    \/ HandleRequest
    \/ HandlerStep
    \/ HandlerEnd

HandlerSpec == Init /\ [][HandlerNext]_vars

\* The closures that have started and not settled.
InFlight == {j \in Jobs : jobs[j].pc \in {"launch", "initScript", "newPage", "run"}}

\* The closures whose handler has been handed the page and has not returned.
Holding == {j \in Jobs : jobs[j].pc = "run"}

Iota(n) == [i \in 1..n |-> i]

\* ----------------------------------------------------------------- claims
\* C1: with concurrency 1, jobs start in submission order and settle in
\* submission order, and job i+1 starts only after job i has settled
\* (job ids are given in submission order), whatever the jobs' outcomes.
C1_Fifo ==
    /\ startSeq = Iota(Len(startSeq))
    /\ doneSeq = Iota(Len(doneSeq))
    /\ Len(doneSeq) <= Len(startSeq)
    /\ Len(startSeq) <= Len(doneSeq) + 1

\* Three jobs have settled, one of them with an error, one with a result.
C1_Witness ==
    /\ Len(doneSeq) = 3
    /\ \E j \in Jobs : jobs[j].outcome = "error"
    /\ \E j \in Jobs : jobs[j].outcome = "result"

\* C2: with concurrency 1, at most one closure is in flight at any moment and
\* at most one handler holds the page; while one is in flight every other
\* submitted job is waiting in the queue or has settled.
C2_OneAtATime ==
    /\ Cardinality(InFlight) <= 1
    /\ Cardinality(Holding) <= 1
    /\ \A j \in InFlight : \A k \in Jobs \ {j} : jobs[k].pc \in {"new", "queued", "done"}

\* A handler is in its extraction steps while another job waits behind it.
C2_Witness ==
    \E j \in Holding :
       /\ jobs[j].step > 4
       /\ queue # <<>>


\* The resets that have requested a close and are waiting for it.
TearingDown == {r \in Resets : resets[r].pc \in {"closePage", "closeCtx"}}

\* C3: a job never observes a partially-reset session: while a reset is
\* closing the page or the context, no job holds that page, a page of that
\* context, or is opening a page on that context.
C3_NoJobDuringTeardown ==
    \A r \in TearingDown : \A j \in InFlight :
       /\ resets[r].pc = "closePage" =>
             ~(jobs[j].pc = "run" /\ jobs[j].page = resets[r].page)
       /\ resets[r].pc = "closeCtx" =>
             /\ ~(jobs[j].pc = "run" /\ pageCtx[jobs[j].page] = resets[r].ctx)
             /\ ~(jobs[j].pc = "newPage" /\ jobs[j].ctx = resets[r].ctx)

\* C4: at most one launched browser context is live (launched and not
\* closed, nor on its way down) at any time.
C4_AtMostOneLive == Cardinality({c \in Ctxs : ctxState[c] = "live"}) <= 1

\* C5: a job whose closure starts after a reset has answered is handed a
\* page and a context that did not exist before that reset answered.
C5_FreshAfterReset ==
    \A j \in InFlight :
       (resetsDone > 0 /\ jobs[j].epoch = resetsDone) =>
          /\ jobs[j].page \notin stalePages
          /\ jobs[j].ctx \notin staleCtxs


\* Reset r answers in this step.
Answers(r) == resets[r].pc # "done" /\ resets'[r].pc = "done"

\* No closure was in flight when reset r began and none has started since.
RanAlone(r) ==
    IF resets[r].pc = "new" THEN Quiet > 0 ELSE resets[r].seen = Len(startSeq) + 1

C7_CloseOnce ==
    /\ \A c \in Ctxs : closeReq[c] <= 1
    /\ \A r \in Resets : resets[r].outcome # "error"

\* Context c has emitted close without any reset having asked for it.
Died(c) == c # 0 /\ ctxState[c] = "closed" /\ closeReq[c] = 0

\* C8: when a context dies unexpectedly the handler that holds one of its
\* pages settles with an error, and no job is ever handed a closed context,
\* a closed page or a page of a closed context.
C8_CrashHandled ==
    [][ \A j \in Jobs :
          /\ (jobs[j].pc = "run" /\ Died(pageCtx[jobs[j].page]) /\ jobs'[j].pc = "done")
                => jobs'[j].outcome = "error"
          /\ (jobs[j].pc # "run" /\ jobs'[j].pc = "run") =>
                /\ ctxState'[jobs'[j].ctx] # "closed"
                /\ pageState'[jobs'[j].page] # "closed"
                /\ ctxState'[pageCtx'[jobs'[j].page]] # "closed"
      ]_vars

\* Job j settles with an error in this step.
Fails(j) == jobs[j].pc # "done" /\ jobs'[j].pc = "done" /\ jobs'[j].outcome = "error"

\* C9: a job's failure reaches only that job: in the step in which a job
\* settles with an error no other job gets an outcome, the jobs that have
\* settled keep theirs, the slot is freed and the head of the queue, if any,
\* is started with the rest of the queue left in order; and at all times the
\* slot count is the number of closures in flight, the queue holds exactly
\* the waiting jobs, and no job waits while a slot is free.
C9_FailureIsolated ==
    /\ [](/\ pending = Cardinality(InFlight)
          /\ {queue[i] : i \in 1..Len(queue)} = {j \in Jobs : jobs[j].pc = "queued"}
          /\ queue # <<>> => pending = CONCURRENCY)
    /\ [][ \A j \in Jobs : Fails(j) =>
             /\ \A k \in Jobs \ {j} : jobs'[k].outcome = jobs[k].outcome
             /\ \A k \in Jobs \ {j} : jobs[k].pc = "done" => jobs'[k] = jobs[k]
             /\ IF queue = <<>>
                THEN /\ queue' = <<>>
                     /\ pending' = pending - 1
                     /\ \A k \in Jobs \ {j} : jobs'[k] = jobs[k]
                ELSE /\ queue' = Tail(queue)
                     /\ pending' = pending
                     /\ jobs'[Head(queue)].pc \in {"launch", "newPage", "run"}
                     /\ \A k \in Jobs \ {j, Head(queue)} : jobs'[k] = jobs[k]
         ]_vars

\* A job has failed, the job behind it has run to a result and a third one
\* holds the page.
C9_Witness ==
    /\ jobs[1].outcome = "error"
    /\ jobs[2].outcome = "result"
    /\ jobs[3].pc = "run"

\* C10: provided every awaited driver call of a closure settles, every
\* submitted job eventually settles (from some point on no submitted job is
\* waiting or in flight); a job has an outcome (result, blocked or error)
\* exactly when it has settled and keeps it; a settled job occupies no slot.
C10_EveryJobSettles ==
    /\ <>[](\A j \in Jobs : jobs[j].pc \in {"new", "done"})
    /\ [][ \A j \in Jobs : jobs[j].pc = "done" => jobs'[j] = jobs[j] ]_vars
    /\ [](/\ pending = Cardinality(InFlight)
          /\ \A j \in Jobs : jobs[j].pc = "done" <=>
                                  jobs[j].outcome \in {"result", "blocked", "error"})

\* A handler holds a page of a context that a reset has closed underneath
\* it, with another job waiting behind it.
C10_Witness ==
    \E j \in Holding :
       /\ ctxState[pageCtx[jobs[j].page]] = "closed"
       /\ closeReq[pageCtx[jobs[j].page]] > 0
       /\ crashes = 0
       /\ queue # <<>>

\* ------------------------------------------------ claims of the handler view
\* The awaited call s of the request being served has settled.
Ran(s) == \E i \in DOMAIN handler.ran : handler.ran[i] = s

\* The function detectAccessBlocker evaluates in the page has returned.
Classified == Ran("detectAccessBlocker") /\ "detectAccessBlocker" \notin handler.caught

\* The entries of a catalog of selectors that select an element of the document.
SelectorHits(catalog) ==
    {catalog[i] : i \in {k \in DOMAIN catalog : Selects(catalog[k]) \cap document.els # {}}}

\* The entries of a catalog of phrases that occur in the body text, whatever
\* its case.
PhraseHits(catalog) ==
    {catalog[i] : i \in {k \in DOMAIN catalog :
                            \E t \in document.text : toLower(t) = catalog[k]}}

Range(seq) == {seq[i] : i \in DOMAIN seq}

\* C11: once the classifier has evaluated a document in which a cookie
\* selector of the catalog matches or a cookie phrase occurs, the verdict is
\* of type cookie and its evidence is exactly the matching selectors and the
\* occurring phrases, whatever CAPTCHA selectors, phrases, challenge iframes
\* or challenge markup the document holds besides; the request is answered
\* 409 with blocked: true and that verdict.
C11_CookieFirst ==
    (Classified /\ (SelectorHits(cookieSelectors) # {} \/ PhraseHits(cookiePhrases) # {}))
    => /\ handler.blocker.type = "cookie"
       /\ Range(handler.blocker.selectors) = SelectorHits(cookieSelectors)
       /\ Range(handler.blocker.phrases) = PhraseHits(cookiePhrases)
       /\ handler.pc = "answered"
       /\ handler.status = 409
       /\ handler.body = [blocked |-> TRUE, blocker |-> handler.blocker]

\* A document with a cookie phrase in mixed case, a CAPTCHA widget and a
\* challenge iframe has been classified as a cookie wall.
C11_Witness ==
    /\ Classified
    /\ "We use cookies" \in document.text
    /\ {"widget", "challengeFrame"} \subseteq document.els
    /\ handler.blocker.type = "cookie"
    /\ handler.status = 409

\* The iframes of the document whose src names a challenge provider.
ChallengeIframes == {e \in document.els : IsChallengeSrc(Src(e))}

\* The challenge markup the document holds.
ChallengeMarkup == {m \in document.html : toLower(m) \in Range(cloudflareMarkerList)}

NoCookieHeuristic ==
    SelectorHits(cookieSelectors) = {} /\ PhraseHits(cookiePhrases) = {}

NoCaptchaHeuristic ==
    /\ SelectorHits(captchaSelectors) = {}
    /\ PhraseHits(captchaPhrases) = {}
    /\ ChallengeIframes = {}
    /\ ChallengeMarkup = {}

\* The required selectors of the request that select an element of the document.
RequiredPresent ==
    {sel \in Range(handler.req.requiredSelectors) :
        sel \notin Malformed /\ Selects(sel) \cap document.els # {}}

\* C12: when the classifier has evaluated the document and returned no
\* blocker, no cookie heuristic and no CAPTCHA heuristic fires on the
\* document, at least one required selector is present if the request names
\* any, and the request is not answered as blocked.
C12_NoneOnlyWhenClean ==
    (Classified /\ handler.blocker = NoVerdict)
    => /\ NoCookieHeuristic
       /\ NoCaptchaHeuristic
       /\ handler.req.requiredSelectors # <<>> => RequiredPresent # {}
       /\ handler.status # 409
       /\ "blocked" \notin DOMAIN handler.body

\* A document was classified clean on the strength of one present required
\* selector, next to a malformed one and beside a harmless iframe, and the
\* handler has gone past classification.
C12_Witness ==
    /\ Classified
    /\ handler.blocker = NoVerdict
    /\ handler.req.requiredSelectors = <<"div[", "h1">>
    /\ "adFrame" \in document.els
    /\ handler.status = 200

\* C13: when the classifier has evaluated a document on which no cookie and
\* no CAPTCHA heuristic fires, the verdict is of type unknown with
\* missingRequired = true and the required selectors as evidence, and the
\* request is answered as blocked, exactly when the request names required
\* selectors and none of them is present; otherwise there is no blocker.
C13_MissingRequired ==
    (Classified /\ NoCookieHeuristic /\ NoCaptchaHeuristic)
    => IF handler.req.requiredSelectors # <<>> /\ RequiredPresent = {}
       THEN /\ handler.blocker = [type |-> "unknown",
                                  selectors |-> handler.req.requiredSelectors,
                                  missingRequired |-> TRUE]
            /\ handler.status = 409
       ELSE handler.blocker = NoVerdict

\* Of two required selectors one is present and one is not: no blocker.
C13_Witness ==
    /\ Classified
    /\ NoCookieHeuristic /\ NoCaptchaHeuristic
    /\ handler.req.requiredSelectors = <<"a.more", "h1">>
    /\ document.els = {"title"}
    /\ handler.blocker = NoVerdict
    /\ handler.pc = "answered"

\* The awaited calls that take data out of the document.
ExtractionSteps ==
    {"extract", "content", "evaluateScript", "results", "fillMissingSnippets",
     "topStories", "aiOverview", "collect"}

\* C14: a request whose classification found a blocker is answered as
\* blocked (409) and none of its extraction steps (field extraction, HTML
\* capture, script evaluation, result parsing, snippet enrichment, top
\* stories, AI overview, scroll collection) has been performed; whenever an
\* extraction step has been performed, detectAccessBlocker had settled
\* before it and had returned no blocker.
C14_BlockedSkipsExtraction ==
    /\ handler.blocker # NoVerdict
       => /\ handler.pc = "answered"
          /\ handler.status = 409
          /\ \A s \in ExtractionSteps : ~Ran(s)
    /\ \A i \in DOMAIN handler.ran :
          handler.ran[i] \in ExtractionSteps
          => /\ \E k \in 1..(i - 1) : handler.ran[k] = "detectAccessBlocker"
             /\ handler.blocker = NoVerdict

\* A /fetch request that asks for fields, on a document showing a CAPTCHA
\* widget, has been answered as blocked.
C14_Witness ==
    /\ handler.req.kind = "fetch"
    /\ handler.req.extract
    /\ "widget" \in document.els
    /\ handler.blocker.type = "captcha"
    /\ handler.status = 409

\* C15: every answer has exactly one of three forms: 200 with the result and
\* neither a blocked flag nor an error; 409 with blocked: true and the
\* verdict; 500 with an error message and nothing else.  A request whose
\* classification found a blocker is answered 409 and never 500; a request
\* whose handler threw is answered 500 and never 409.
C15_ThreeForms ==
    handler.pc = "answered"
    => LET success == /\ handler.status = 200
                      /\ "blocked" \notin DOMAIN handler.body
                      /\ "error" \notin DOMAIN handler.body
           blocked == /\ handler.status = 409
                      /\ handler.body = [blocked |-> TRUE, blocker |-> handler.blocker]
                      /\ handler.blocker.type \in {"cookie", "captcha", "unknown"}
           failure == /\ handler.status = 500
                      /\ handler.body = [error |-> "message"]
       IN
       /\ handler.status \in {200, 409, 500}
       /\ handler.blocker # NoVerdict <=> blocked
       /\ handler.failed # Absent <=> failure
       /\ (handler.blocker = NoVerdict /\ handler.failed = Absent) <=> success

\* A script threw on a document that had been classified clean: the answer
\* is a failure, not a blocker.
C15_Witness ==
    /\ handler.pc = "answered"
    /\ Classified
    /\ handler.failed = "evaluateScript"
    /\ handler.status = 500

\* C16: a rejection of page.goto is never swallowed; the request whose
\* navigation failed is answered 500 with an error message, and neither
\* detectAccessBlocker nor any extraction step has been performed for it.
C16_NavigationHard ==
    /\ "goto" \notin handler.caught
    /\ handler.failed = "goto"
       => /\ handler.pc = "answered"
          /\ handler.status = 500
          /\ handler.body = [error |-> "message"]
          /\ ~Ran("detectAccessBlocker")
          /\ \A s \in ExtractionSteps : ~Ran(s)
    /\ (Ran("goto") /\ handler.failed # "goto" /\ handler.pc = "run")
       => Steps(handler.req)[handler.step] # "goto"

\* The navigation of a /maps request has failed on a page that would have
\* shown result cards.
C16_Witness ==
    /\ handler.failed = "goto"
    /\ handler.req.kind = "maps"
    /\ "card" \in document.els

\* C17: a selector wait that times out does not end the request, in /fetch
\* (with waitForSelector), /search and /maps alike: once the wait has
\* settled, resolved or rejected, the handler is still running, on its way
\* to classification, and the request is never answered with the wait's
\* error.
C17_SelectorWaitSoft ==
    /\ handler.failed # "waitForSelector"
    /\ (handler.ran # <<>> /\ handler.ran[Len(handler.ran)] = "waitForSelector")
       => handler.pc = "run"

\* page.evaluate has returned the extracted data of the request being served.
Extracted == Ran("extract") /\ handler.failed # "extract"

\* The items of the request whose selector matches nothing in the document.
NonMatching ==
    {i \in DOMAIN handler.req.items :
        querySelector(document, handler.req.items[i].selector) = Null}

\* The extract list without its non-matching items.
MatchingItems ==
    SelectSeq(handler.req.items, LAMBDA item : querySelector(document, item.selector) # Null)

\* Each non-matching item has null under its name, and each other item has
\* under its name what the list without the non-matching items gives.
Isolated ==
    \A i \in DOMAIN handler.req.items :
       LET name == handler.req.items[i].name IN
       /\ name \in DOMAIN handler.extracted
       /\ handler.extracted[name] =
             IF i \in NonMatching THEN Null
             ELSE extractAll(document, MatchingItems).data[name]

NoSharedName ==
    \A i \in NonMatching : \A k \in DOMAIN handler.req.items :
       k # i => handler.req.items[k].name # handler.req.items[i].name

Failing == {i \in DOMAIN handler.req.items : handler.req.items[i].selector \in Malformed}

\* C19: a field whose lookup throws does not fail the request: the request
\* is never answered with the exception of a field lookup, and once the
\* fields have been extracted each failing field is null under its name.
C19_FieldFailureLocal ==
    /\ ~(handler.failed = "extract" /\ handler.threw)
    /\ Extracted => \A i \in Failing :
                       /\ handler.req.items[i].name \in DOMAIN handler.extracted
                       /\ handler.extracted[handler.req.items[i].name] = Null

\* C20: when the caller's script throws, the request is answered 500 with
\* an error message and nothing else (no extracted fields, no html, no
\* result of the script); a script that throws never leads to another
\* answer; the slot of the queue is free again after the answer and the
\* service starts the next request.
C20_ScriptFailureFailsJob ==
    /\ (handler.failed = "evaluateScript" /\ handler.threw)
       => /\ handler.pc = "answered"
          /\ handler.status = 500
          /\ handler.body = [error |-> "message"]
          /\ pending = 0
    /\ (Ran("evaluateScript") /\ handler.req.script = "throws")
       => handler.failed = "evaluateScript"
    /\ handler.pc = "idle" => CanStart(pending)
    /\ pending = IF handler.pc = "run" THEN 1 ELSE 0

\* A script has thrown after the fields and the html of the page had been
\* taken: the answer is the error alone.
C20_Witness ==
    /\ handler.failed = "evaluateScript"
    /\ handler.threw
    /\ handler.extracted # NoData
    /\ handler.html # Absent
    /\ handler.status = 500

\* ------------------------------------------------------------ parallel view
\* C21: with CONCURRENCY above one, any two jobs that are in flight at the
\* same time and have been handed a page hold distinct pages.
C21_DistinctPages ==
    \A i \in Holding, j \in Holding : i # j => jobs[i].page # jobs[j].page

\* ------------------------------------------------------------- router view
\* Every request passes `authenticate` before its route.  The router view is
\* the service view with the requests drawn with their keys and with
\* GET /health among the routes; the requests answered at once (turned away
\* by authenticate, or served by /health) are recorded in `answered`.  The
\* view leaves out the unexpected death of a context.
MaxAnswered == 1

Undefined == "undefined"
Routes == {"fetch", "search", "maps", "health", "reset"}
JobRoutes == {"fetch", "search", "maps"}

\* What a request carries for the key: the x-api-key header and the api_key
\* query parameter.  The pairs kept: no key at all, an empty parameter, the
\* key as parameter, the key as header, a wrong header before a right
\* parameter.
Inbound ==
    {q \in [route : Routes,
            header : {Undefined, Configured, "wrong"},
            query : {Undefined, "", Configured}] :
        q.header = Undefined \/ q.query = Configured}

\* req.header('x-api-key') || req.query.api_key
providedKey(q) == IF q.header \in {Undefined, ""} THEN q.query ELSE q.header

\* Variant: the guard on an API_KEY that is not configured is missing.
authenticateNoGuard(apiKey, q) == IF providedKey(q) # apiKey THEN 401 ELSE 0

\* authenticate: the status it answers with, or 0 when it calls next().
authenticate(apiKey, q) ==
    IF apiKey = "" THEN 500
    ELSE IF providedKey(q) # apiKey THEN 401
    ELSE 0

\* The body of GET /health.
HealthAnswer ==
    [ok |-> TRUE,
     browserReady |-> sharedPage # 0 /\ ~PageIsClosed(sharedPage),
     queueSize |-> Len(queue),
     pending |-> pending]

\* A request is answered at once with the given status; nothing else moves.
AnswerAtOnce(status) ==
    /\ Len(answered) < MaxAnswered
    /\ answered' = Append(answered, status)
    /\ UNCHANGED <<env, collectorVars, resultsVars, headerVars, handlerVars, context, sharedPage, driverVars, queue,
                   pending, jobs, resets, crashes, startSeq, doneSeq, histVars>>

\* Variant: /health takes the page the way the other routes do, through runJob.
GetHealthThroughQueue == \E j \in Jobs : Submit(j, FetchMin)

\* GET /health: reads sharedPage and the queue's two counters and answers.
GetHealth == AnswerAtOnce(200)

\* The route of an authenticated request runs to its first await.
Route(route) ==
    CASE route = "health" -> GetHealth
      [] route = "reset" -> \E r \in Resets : ResetStart(r)
      [] OTHER -> \E j \in Jobs, req \in Requests : req.kind = route /\ Submit(j, req)

\* A request arrives: authenticate answers it or passes it on to its route.
Receive(q) ==
    LET status == authenticate(env.API_KEY, q) IN
    IF status # 0 THEN AnswerAtOnce(status) ELSE Route(q.route)

RouterInit ==
    \E key \in {"", Configured} : InitWith([CONCURRENCY |-> CONCURRENCY, API_KEY |-> key])

RouterNext ==
    \/ \E q \in Inbound : Receive(q)
    \/ JobNext
    \/ \E r \in Resets : ResetPageClosed(r)
    \/ \E r \in Resets : ResetCtxClosed(r)
    \/ \E p \in Pages : PageClosed(p)
    \/ \E c \in Ctxs : CloseEvent(c)

RouterSpec == RouterInit /\ [][RouterNext]_vars

\* C22: the health counts are exact in every reachable state: pending is the
\* number of jobs started and not yet finished and never exceeds the
\* configured concurrency, queueSize is the number of jobs submitted and not
\* yet started, a submission is never refused whatever the queue's length,
\* and reading health enqueues nothing, launches nothing and leaves the
\* session as it is.
C22_Counts ==
    /\ HealthAnswer.pending = Cardinality(InFlight)
    /\ HealthAnswer.pending <= env.CONCURRENCY
    /\ HealthAnswer.queueSize = Cardinality({j \in Jobs : jobs[j].pc = "queued"})
    /\ (env.API_KEY # "" /\ NumRequests < MaxRequests /\ \E j \in Jobs : jobs[j].pc = "new")
           => ENABLED (\E q \in Inbound : q.route \in JobRoutes /\ Receive(q))

C22_HealthExact ==
    /\ []C22_Counts
    /\ [][GetHealth => UNCHANGED <<queue, pending, jobs, context, sharedPage, driverVars,
                                   resets>>]_vars

\* /health has answered while one job runs on an open page and another waits.
C22_Witness ==
    /\ 200 \in Range(answered)
    /\ HealthAnswer.browserReady
    /\ HealthAnswer.pending = 1
    /\ HealthAnswer.queueSize >= 1

\* The request q carries the configured key.
KeyOk(q) == env.API_KEY # "" /\ providedKey(q) = env.API_KEY

\* Nothing has been enqueued, launched, reset or served.
Untouched ==
    /\ \A j \in Jobs : jobs[j] = NoJob
    /\ \A r \in Resets : resets[r] = NoReset
    /\ queue = <<>> /\ pending = 0
    /\ context = 0 /\ sharedPage = 0
    /\ NumCtxs = 0 /\ NumPages = 0
    /\ 200 \notin Range(answered)

\* The step answers a request 401 or 500 (401 when a key is configured) and
\* leaves the queue, the jobs, the session and the resets as they are.
TurnedAway ==
    /\ \E status \in {401, 500} : answered' = Append(answered, status)
    /\ env.API_KEY # "" => answered' = Append(answered, 401)
    /\ UNCHANGED <<queue, pending, jobs, context, sharedPage, driverVars, resets,
                   startSeq, doneSeq>>

\* C28: no request reaches the queue or the session without the correct key.
\* Whatever its route, a request whose key differs from a configured API_KEY
\* can only be answered 401, and while API_KEY is not configured every
\* request can only be turned away; in both cases no job is enqueued, no
\* browser is launched, no reset runs and /health is not served.
C28_KeyRequired ==
    /\ env.API_KEY = "" => Untouched
    /\ \A q \in Inbound : ~KeyOk(q) => ~ENABLED (Receive(q) /\ ~TurnedAway)

\* A request with a wrong key has been answered 401 while a job runs and
\* another waits in the queue.
C28_Witness ==
    /\ 401 \in Range(answered)
    /\ Holding # {}
    /\ queue # <<>>

\* With API_KEY not configured a request has been answered 500.
C28_WitnessUnset == env.API_KEY = "" /\ 500 \in Range(answered)

\* ---------------------------------------------------------- collector view
\* The function /maps evaluates in the page: it scans the rendered result
\* anchors into a Map keyed by href, scrolls the panel, sleeps, and starts
\* over.  The page re-renders the panel while the function sleeps; a scan
\* is synchronous and sees one snapshot of the anchors.  `collected` is the
\* Map as the sequence of its values in insertion order.
NumPlaces == 2      \* distinct hrefs the panel is able to show
MaxCards == 2       \* anchors rendered at the same time
MaxLimit == 3       \* largest `limit` of a request
MaxIterations == 20 \* the cap of the loop: iterations < 20

Places == 1..NumPlaces
Labels == {"A", "B"}
Limits == -1..MaxLimit

\* An anchor a.hfpxzc[href*="/place/"]: its href (never empty, the selector
\* requires it) and its aria-label, which may be missing.  The rating, the
\* reviews and the descriptor are read the way the label is and are left out.
Cards == [href : Places, title : Labels \cup {Null}]

\* What document.querySelectorAll returns: the anchors in document order.
Snapshots == UNION {[1..n -> Cards] : n \in 0..MaxCards}

\* collected.has(href)
has(coll, href) == \E i \in DOMAIN coll : coll[i].href = href

\* Variant: a card already collected is stored again, with what it shows now.
scrapeCardOverwrites(coll, card) ==
    IF card.title = Null THEN coll
    ELSE IF has(coll, card.href)
    THEN [i \in DOMAIN coll |-> IF coll[i].href = card.href THEN card ELSE coll[i]]
    ELSE Append(coll, card)

\* The body of scrape's loop for one card.
scrapeCard(coll, card) ==
    IF card.title = Null THEN coll
    ELSE IF has(coll, card.href) THEN coll
    ELSE Append(coll, card)

RECURSIVE scrapeFrom(_, _, _)
scrapeFrom(coll, cs, i) ==
    IF i > Len(cs) THEN coll ELSE scrapeFrom(scrapeCard(coll, cs[i]), cs, i + 1)

\* scrape(): every rendered card, in document order.
scrape(coll, cs) == scrapeFrom(coll, cs, 1)

\* Variant: the values are returned as they are, without the cut.
sliceKeepsAll(seq, n) == seq

\* Array.prototype.slice(0, n): a negative n counts from the end.
slice(seq, n) ==
    LET last == IF n < 0 THEN Len(seq) + n ELSE n
        m == IF last < 0 THEN 0 ELSE IF last > Len(seq) THEN Len(seq) ELSE last
    IN SubSeq(seq, 1, m)

\* Variant: the loop goes on until nothing is left to collect, without a cap.
LoopTestNoCap(c) == Len(c.collected) < c.maxResults /\ c.enableScroll /\ c.panel

\* The condition of the while loop.
LoopTest(c) ==
    /\ Len(c.collected) < c.maxResults
    /\ c.enableScroll
    /\ c.panel
    /\ c.iterations < MaxIterations

\* From the loop's test to the next await or to the return, on the anchors cs:
\* one more pass (scan, scroll, then sleep) or the last scan and the result.
RunOn(c, cs) ==
    IF LoopTest(c)
    THEN [c EXCEPT !.pc = "sleep", !.collected = scrape(@, cs), !.scrolls = @ + 1]
    ELSE LET all == scrape(c.collected, cs) IN
         [c EXCEPT !.pc = "done", !.collected = all, !.results = slice(all, c.maxResults)]

\* page.evaluate starts the function with {maxResults: limit, enableScroll:
\* scroll} on a page that has or has not the panel.
Evaluate ==
    /\ collector.pc = "idle"
    /\ \E limit \in Limits, scroll \in BOOLEAN, panel \in BOOLEAN, cs \in Snapshots :
          /\ cards' = cs
          /\ collector' = RunOn([NoCollector EXCEPT !.maxResults = limit,
                                                   !.enableScroll = scroll,
                                                   !.panel = panel], cs)
    /\ UNCHANGED <<pending, serviceVars, handlerVars, resultsVars, headerVars>>

\* sleep(600) is over; the panel shows whatever it has rendered meanwhile.
SleepDone ==
    /\ collector.pc = "sleep"
    /\ \E cs \in Snapshots :
          /\ cards' = cs
          /\ collector' = RunOn([collector EXCEPT !.iterations = @ + 1], cs)
    /\ UNCHANGED <<pending, serviceVars, handlerVars, resultsVars, headerVars>>

\* The result has been returned to the handler.
CollectorEnd ==
    /\ collector.pc = "done"
    /\ collector' = NoCollector
    /\ cards' = <<>>
    /\ UNCHANGED <<pending, serviceVars, handlerVars, resultsVars, headerVars>>

CollectorNext == Evaluate \/ SleepDone \/ CollectorEnd

CollectorSpec == Init /\ [][CollectorNext]_vars

\* setTimeout fires: every sleep comes to its end.
CollectorFairSpec == CollectorSpec /\ WF_vars(SleepDone)

\* No two entries of the sequence have the same href.
UniqueHrefs(seq) == \A i \in DOMAIN seq, j \in DOMAIN seq : i # j => seq[i].href # seq[j].href

\* C23: for every maps job the returned results hold at most `limit` entries
\* and no two of them have the same href, whatever the number of passes and
\* however the cards come, go or change between the passes.
C23_AtMostLimitUnique ==
    collector.pc = "done" =>
        /\ Len(collector.results) <= collector.maxResults
        /\ UniqueHrefs(collector.results)

\* C23, for the requests whose limit is not negative: the returned results
\* hold at most `limit` entries and no two of them have the same href.
C23_WithinLimitFromZero ==
    (collector.pc = "done" /\ collector.maxResults >= 0) =>
        /\ Len(collector.results) <= collector.maxResults
        /\ UniqueHrefs(collector.results)

\* A job with limit 1 has scrolled, has collected two places and returns one.
C23_Witness ==
    /\ collector.pc = "done"
    /\ collector.maxResults = 1
    /\ collector.scrolls >= 2
    /\ Len(collector.collected) = 2
    /\ Len(collector.results) = 1

\* C24: the collector is a monotonic accumulation: across all scans of one
\* job the set of collected keys only grows, and the entry stored for an href
\* by the scan that first saw it is never removed and never overwritten.
C24_Monotonic ==
    [][(collector.pc # "idle" /\ collector'.pc # "idle") =>
          /\ Len(collector.collected) <= Len(collector'.collected)
          /\ \A i \in DOMAIN collector.collected :
                collector'.collected[i] = collector.collected[i]]_vars

\* A later scan has run on a panel that no longer shows one collected place
\* and shows another with a different label.
C24_Witness ==
    /\ collector.pc \in {"sleep", "done"}
    /\ collector.iterations >= 1
    /\ \E i \in DOMAIN collector.collected :
          \A k \in DOMAIN cards : cards[k].href # collector.collected[i].href
    /\ \E i \in DOMAIN collector.collected, k \in DOMAIN cards :
          /\ cards[k].href = collector.collected[i].href
          /\ cards[k].title \notin {Null, collector.collected[i].title}

\* A scroll pass is possible: scrolling is enabled and the panel is there.
CanScroll == collector.enableScroll /\ collector.panel

C25_Bounded ==
    /\ collector.iterations <= MaxIterations
    /\ collector.scrolls <= MaxIterations
    /\ ~CanScroll => collector.scrolls = 0
    /\ collector.pc = "done" =>
          \/ Len(collector.collected) >= collector.maxResults
          \/ collector.iterations = MaxIterations
          \/ ~CanScroll

NoResultContainers == Selects("#search .g") \cap document.els = {}

\* C26: a search job whose page has no matching result container and no
\* cookie or CAPTCHA markup, and whose calls all settle well, ends COMPLETED
\* with an empty result list; it does not end BLOCKED.
C26_EmptySearchCompletes ==
    (/\ handler.pc = "answered"
     /\ handler.req.kind = "search"
     /\ Classified
     /\ handler.failed = Absent
     /\ NoResultContainers /\ NoCookieHeuristic /\ NoCaptchaHeuristic)
    => /\ handler.status = 200
       /\ handler.blocker = NoVerdict
       /\ handler.body = [results |-> <<>>]

\* C29: fail-open classification.  A failure of the classifier as a whole
\* (its page evaluation rejects) never fails the job; the classifier then
\* returns no verdict and the job goes on as for no blocker: it attempts
\* every later step, and ends COMPLETED with the result of those steps or
\* FAILED at one of them, never BLOCKED.
C29_FailOpen ==
    /\ handler.failed # "detectAccessBlocker"
    /\ "detectAccessBlocker" \in handler.caught =>
          /\ handler.blocker = NoVerdict
          /\ handler.status # 409
          /\ "blocked" \notin DOMAIN handler.body
          /\ handler.pc = "answered" =>
                IF handler.failed = Absent
                THEN /\ handler.ran = Steps(handler.req)
                     /\ handler.status = 200
                     /\ handler.body = ResultBody(handler)
                ELSE /\ handler.failed \in ExtractionSteps
                     /\ handler.status = 500

\* The classifier has failed on a page that shows a cookie banner; the fields
\* were extracted all the same and the request is answered 200.
C29_Witness ==
    /\ "detectAccessBlocker" \in handler.caught
    /\ "banner" \in document.els
    /\ handler.pc = "answered"
    /\ handler.status = 200
    /\ handler.extracted # NoData

\* The list with every malformed selector replaced by one that is well formed
\* and selects nothing.
AsAbsent(selectors) ==
    [i \in DOMAIN selectors |-> IF selectors[i] \in Malformed THEN ".none" ELSE selectors[i]]

\* The list without its malformed selectors.
WellFormed(selectors) == SelectSeq(selectors, LAMBDA sel : sel \notin Malformed)

\* Catalogs that hold a selector the engine rejects, next to ones it accepts.
CatalogSamples == [1..2 -> {"#onetrust-banner-sdk", ".g-recaptcha", "div["}]

\* C30: a malformed selector never aborts classification.  A catalog selector
\* that throws is counted as not matching: the hits of a catalog are the hits
\* of its well-formed selectors.  A required selector that throws is counted
\* as absent: the verdict is the one the classifier gives when that selector
\* is well formed and selects nothing, so it is computed from the remaining
\* selectors and phrases, and the job never fails at the classifier.
C30_MalformedSelector ==
    /\ handler.failed # "detectAccessBlocker"
    /\ \A catalog \in CatalogSamples :
          collectSelectors(document, catalog) = collectSelectors(document, WellFormed(catalog))
    /\ Classified =>
          LET asAbsent == detectAccessBlocker(document, AsAbsent(handler.req.requiredSelectors))
          IN /\ handler.blocker.type = asAbsent.type
             /\ handler.blocker # NoVerdict =>
                   handler.blocker.missingRequired = asAbsent.missingRequired
             /\ handler.blocker.type = "unknown" =>
                   /\ handler.req.requiredSelectors # <<>>
                   /\ RequiredPresent = {}

\* The only required selector is malformed and the page is clean: the verdict
\* is the missing-content one and the request is answered as blocked.
C30_Witness ==
    /\ Classified
    /\ handler.req.requiredSelectors = <<"div[">>
    /\ handler.blocker.type = "unknown"
    /\ handler.status = 409

\* A malformed required selector next to a cookie banner: the verdict is the
\* cookie one.
C30_WitnessCookie ==
    /\ Classified
    /\ "div[" \in Range(handler.req.requiredSelectors)
    /\ handler.blocker.type = "cookie"

\* ------------------------------------------------- service view, continued
\* The closure of job j starts in this step and getSharedPage hands it a page
\* before the step is over: the session it found needed no await.
Acquires(j) == jobs[j].pc \in {"new", "queued"} /\ jobs'[j].pc = "run"

\* C27: while a reset is in progress (a close requested by /reset has not
\* settled), getSharedPage does not return the handle being torn down: a
\* job that starts meanwhile is not handed the page that reset is closing,
\* nor a page of the context it is closing.
C27_NotHandedTornDown ==
    [][\A j \in Jobs : Acquires(j) =>
          \A r \in TearingDown :
             /\ resets[r].pc = "closePage" => jobs'[j].page # resets[r].page
             /\ resets[r].pc = "closeCtx" => pageCtx'[jobs'[j].page] # resets[r].ctx]_vars

\* ------------------------------------------------------------ results view
\* What /search does with the result cards once the classifier has found no
\* blocker: the function evaluated in the page scans the cards into `items`,
\* then fillMissingSnippets fetches the pages of the items left without a
\* snippet.  The scan is synchronous; fillMissingSnippets awaits each fetch
\* and each body.
MaxResultCards == 2    \* result cards the page shows
MaxSearchLimit == 2    \* largest `limit` of a search request
MaxSnippetLimit == 2   \* largest FALLBACK_SNIPPET_LIMIT of the environment

SearchLimits == -1..MaxSearchLimit
SnippetLimits == -1..MaxSnippetLimit
Links == {"https://a", "http://b", "ftp://c"}

\* A result card: the innerText of its h3 (Null without an h3), the resolved
\* href of its first a[href] (Null without one), its class list, and the
\* snippet the snippet catalogs and the line fallback resolve for it (Null
\* when none does).  Of the tests of isVideoResult the class test is kept;
\* the media-node, carousel and anchor-label tests are read the same way.
ResultCards == [h3 : {Null, " ", "T"}, href : Links \cup {Null},
                classList : {{"g"}, {"g", "PmEWq"}}, snippet : {Null, "S"}]

\* The cards in document order, after the wrappers seen twice are dropped.
ResultPages == UNION {[1..n -> ResultCards] : n \in 0..MaxResultCards}

\* String.prototype.trim
trim(s) == IF s = " " THEN "" ELSE s

\* isVideoResult(node)
isVideoResult(node) == "PmEWq" \in node.classList \/ "ULSxyf" \in node.classList

\* The item pushed for a card; sitePath is resolved like the snippet and is
\* left at null.
ItemOf(card) == [title |-> trim(card.h3), link |-> card.href,
                 snippet |-> card.snippet, sitePath |-> Null]

\* The loop over the cards from the i-th on: a card without h3 or link, with
\* a link already seen, or recognised as a video is skipped; the others are
\* pushed, and the loop breaks once items.length >= maxResults.  `picked`
\* holds the positions of the cards pushed so far, in the order of the pushes.
RECURSIVE scanFrom(_, _, _, _, _)
scanFrom(picked, seenLinks, cs, i, maxResults) ==
    IF i > Len(cs) THEN picked
    ELSE LET card == cs[i] IN
         IF card.h3 = Null \/ card.href = Null THEN scanFrom(picked, seenLinks, cs, i + 1, maxResults)
         ELSE IF card.href \in seenLinks THEN scanFrom(picked, seenLinks, cs, i + 1, maxResults)
         ELSE IF isVideoResult(card) THEN scanFrom(picked, seenLinks, cs, i + 1, maxResults)
         ELSE LET pushed == Append(picked, i) IN
              IF Len(pushed) >= maxResults THEN pushed
              ELSE scanFrom(pushed, seenLinks \cup {card.href}, cs, i + 1, maxResults)

\* page.evaluate(..., {maxResults: limit}) on the cards the page shows.
ScanEvaluate ==
    /\ scan.pc = "idle"
    /\ fill.pc = "idle"
    /\ \E limit \in SearchLimits, cs \in ResultPages :
          LET picked == scanFrom(<<>>, {}, cs, 1, limit) IN
          scan' = [pc |-> "done", maxResults |-> limit, cards |-> cs, picked |-> picked,
                   items |-> [k \in DOMAIN picked |-> ItemOf(cs[picked[k]])]]
    /\ UNCHANGED <<fill, pending, serviceVars, handlerVars, collectorVars, headerVars>>

\* String.prototype.startsWith('http') on the links of the model.
startsWithHttp(link) == link \in {"https://a", "http://b"}

\* What the two regular expressions capture from the body of a page: the
\* content of its meta description, never empty; Null when neither matches.
MetaContents == {Null, "&nbsp;", "a &amp; b"}

\* decodeHtml(value): the entities are replaced, then the value is trimmed.
decodeHtml(value) ==
    IF value = Null THEN ""
    ELSE IF value = "&nbsp;" THEN ""
    ELSE IF value = "a &amp; b" THEN "a & b"
    ELSE value

\* Variant: the loop never breaks on the number of attempts.
CapReachedNever(attempts) == FALSE

\* attempts >= FALLBACK_SNIPPET_LIMIT
CapReached(attempts) == attempts >= env.FALLBACK_SNIPPET_LIMIT

\* The for loop from the item f.i on, up to the next fetch or to the return:
\* an item with a snippet, without a link or with a link that does not start
\* with http is passed over; the loop breaks when the attempts are used up.
RECURSIVE FillFrom(_)
FillFrom(f) ==
    IF f.i > Len(f.items) THEN [f EXCEPT !.pc = "returned"]
    ELSE LET item == f.items[f.i] IN
         IF item.snippet # Null \/ item.link = Null \/ ~startsWithHttp(item.link)
         THEN FillFrom([f EXCEPT !.i = @ + 1])
         ELSE IF CapReached(f.attempts) THEN [f EXCEPT !.pc = "returned"]
         ELSE [f EXCEPT !.pc = "fetch", !.attempts = @ + 1, !.fetches = @ + 1]

\* `continue`, and the end of the catch block: on to the next item.
Continue(f) == FillFrom([f EXCEPT !.i = @ + 1])

\* await fillMissingSnippets(results), up to its first fetch or to its return.
FillCall ==
    /\ scan.pc = "done"
    /\ fill.pc = "idle"
    /\ LET f == [NoFill EXCEPT !.results = scan.items, !.items = scan.items, !.i = 1] IN
       fill' = IF Len(scan.items) = 0 \/ env.FALLBACK_SNIPPET_LIMIT <= 0
               THEN [f EXCEPT !.pc = "returned"]
               ELSE FillFrom(f)
    /\ UNCHANGED <<scan, pending, serviceVars, handlerVars, collectorVars, headerVars>>

\* fetch(item.link) settles: it rejects (a network error, or the abort when
\* the timer fires), or it resolves with a response that is ok or is not.
FetchSettled ==
    /\ fill.pc = "fetch"
    /\ \E outcome \in {"reject", "notOk", "ok"} :
          fill' = IF outcome = "ok" THEN [fill EXCEPT !.pc = "text"] ELSE Continue(fill)
    /\ UNCHANGED <<scan, pending, serviceVars, handlerVars, collectorVars, headerVars>>

\* response.text() settles: it rejects, or the body is matched against the
\* meta description and a non-empty decoded content becomes the snippet.
TextSettled ==
    /\ fill.pc = "text"
    /\ \/ fill' = Continue(fill)
       \/ \E content \in MetaContents :
             LET snippetText == decodeHtml(content) IN
             fill' = IF content # Null /\ snippetText # ""
                     THEN Continue([fill EXCEPT !.items[fill.i].snippet = snippetText])
                     ELSE Continue(fill)
    /\ UNCHANGED <<scan, pending, serviceVars, handlerVars, collectorVars, headerVars>>

\* fillMissingSnippets has returned; the handler goes on with the results.
FillReturn ==
    /\ fill.pc = "returned"
    /\ scan' = NoScan
    /\ fill' = NoFill
    /\ UNCHANGED <<pending, serviceVars, handlerVars, collectorVars, headerVars>>

\* The module loaded under some FALLBACK_SNIPPET_LIMIT.
ResultsInit ==
    \E n \in SnippetLimits :
        InitWith([CONCURRENCY |-> CONCURRENCY, API_KEY |-> Configured,
                  FALLBACK_SNIPPET_LIMIT |-> n])

ResultsNext == ScanEvaluate \/ FillCall \/ FetchSettled \/ TextSettled \/ FillReturn

ResultsSpec == ResultsInit /\ [][ResultsNext]_vars

\* The items have pairwise different links, each has a title and a link, and
\* none was pushed for a card that isVideoResult recognises.
WellFormedItems ==
    /\ \A i \in DOMAIN scan.items, j \in DOMAIN scan.items :
          i # j => scan.items[i].link # scan.items[j].link
    /\ \A i \in DOMAIN scan.items :
          /\ scan.items[i].title # Null
          /\ scan.items[i].link # Null
          /\ ~isVideoResult(scan.cards[scan.picked[i]])

\* C31: for every search job whose limit is not negative (no result meets a
\* negative limit) the returned results hold at most `limit` items, no two
\* items have the same link, every item has a title and a link, and no card
\* recognised as a video is among them.
C31_ResultsWithinLimit ==
    (scan.pc = "done" /\ scan.maxResults >= 0) =>
        /\ Len(scan.items) <= scan.maxResults
        /\ WellFormedItems

\* What the scan does keep: with a limit of at least 1 the results hold at
\* most `limit` items, and whatever the limit the items are well formed.
C31_FromOne ==
    scan.pc = "done" =>
        /\ scan.maxResults >= 1 => Len(scan.items) <= scan.maxResults
        /\ WellFormedItems

\* The largest number of fetches FALLBACK_SNIPPET_LIMIT allows.
FetchBudget == IF env.FALLBACK_SNIPPET_LIMIT <= 0 THEN 0 ELSE env.FALLBACK_SNIPPET_LIMIT

\* C32: snippet enrichment is bounded and best-effort.  In every state of a
\* call of fillMissingSnippets the number of fetches made is at most
\* FALLBACK_SNIPPET_LIMIT, and is 0 when that limit is <= 0; an item that had
\* a snippet, or whose link does not start with http, is what it was; the
\* list has its length, and every item its title, link and sitePath; and the
\* call never ends by throwing, whatever the fetches and the bodies do.
C32_BestEffort ==
    fill.pc # "idle" =>
        /\ fill.fetches <= FetchBudget
        /\ fill.pc # "thrown"
        /\ Len(fill.items) = Len(fill.results)
        /\ \A k \in DOMAIN fill.results :
              LET was == fill.results[k]
                  is == fill.items[k] IN
              /\ is.title = was.title /\ is.link = was.link /\ is.sitePath = was.sitePath
              /\ (was.snippet # Null \/ ~startsWithHttp(was.link)) => is = was

\* A call under a limit of 1 has returned on two items that both lacked a
\* snippet and had http(s) links: it has fetched once, has filled the first
\* item from the meta description and has left the second as it was.
C32_Witness ==
    /\ fill.pc = "returned"
    /\ env.FALLBACK_SNIPPET_LIMIT = 1
    /\ Len(fill.results) = 2
    /\ \A k \in 1..2 : fill.results[k].snippet = Null /\ startsWithHttp(fill.results[k].link)
    /\ fill.fetches = 1
    /\ fill.items[1].snippet = "a & b"
    /\ fill.items[2].snippet = Null

\* A call has returned after a rejected fetch, next to an item with an ftp
\* link and no snippet that it has passed over.
C32_WitnessFailure ==
    /\ fill.pc = "returned"
    /\ fill.fetches = 1
    /\ fill.items = fill.results
    /\ \E k \in DOMAIN fill.results :
          fill.results[k].snippet = Null /\ fill.results[k].link = "ftp://c"

\* ------------------------------------------------- service view, continued
\* C33: the session reference is only ever cleared for the session it
\* belongs to, so that no live context is ever left launched but
\* unreferenced: in every reachable state a context that is live is the one
\* the module variable `context` records.
C33_NoOrphan == \A c \in Ctxs : ctxState[c] = "live" => context = c

\* C34: page/context consistency.  In every reachable state, if a shared
\* page is recorded then a context is recorded and the page was created by
\* that context.
C34_PageOfContext == sharedPage # 0 => (context # 0 /\ pageCtx[sharedPage] = context)

\* C34, at the handoff: the page getSharedPage hands to a job is open and
\* belongs to the context recorded at that moment.
C34_Handoff ==
    [][\A j \in Jobs :
          (jobs[j].pc # "run" /\ jobs'[j].pc = "run") =>
              /\ pageState'[jobs'[j].page] = "open"
              /\ context' # 0
              /\ pageCtx'[jobs'[j].page] = context']_vars

\* ------------------------------------------------------------ headers view
\* The extra HTTP headers of the shared page across the jobs that run on it
\* one after the other.  page.setExtraHTTPHeaders replaces the headers the
\* page sends with every request it initiates; they stay in effect until the
\* next call, for as long as the page lives.
MaxVisits == 3       \* jobs run on the shared page, one after the other
MaxSharedPages == 2  \* shared pages opened one after the other

HeaderNames == {"x-a", "x-b"}

\* The `headers` of a request body: missing, a string, or an object with
\* one header.  /search and /maps do not read the field.
HeaderFields ==
    {[type |-> "undefined", names |-> {}], [type |-> "string", names |-> {}]}
        \cup {[type |-> "object", names |-> {h}] : h \in HeaderNames}

\* headers && typeof headers === 'object' ? headers : {}
extraHeadersOf(headers) == IF headers.type = "object" THEN headers.names ELSE {}

\* The first driver call of the handler of a route.
FirstCall(kind) == IF kind = "fetch" THEN "setExtraHTTPHeaders" ELSE "goto"

\* The handler of a job is given the shared page and runs to its first await.
VisitStart ==
    /\ visit.pc = "idle"
    /\ visit.n < MaxVisits
    /\ \E kind \in {"fetch", "search", "maps"}, headers \in HeaderFields :
          /\ kind # "fetch" => headers.type = "undefined"
          /\ visit' = [visit EXCEPT !.pc = FirstCall(kind), !.kind = kind,
                                    !.own = extraHeadersOf(headers), !.sent = {},
                                    !.n = @ + 1]
    /\ UNCHANGED <<extraHeaders, pending, serviceVars, handlerVars, collectorVars, resultsVars>>

\* page.setExtraHTTPHeaders(extraHeaders) resolves, and the page's headers
\* are those of the request, or rejects, and the job fails.
SetHeadersSettled ==
    /\ visit.pc = "setExtraHTTPHeaders"
    /\ \/ /\ extraHeaders' = visit.own
          /\ visit' = [visit EXCEPT !.pc = "goto"]
       \/ /\ visit' = [visit EXCEPT !.pc = "failed"]
          /\ UNCHANGED extraHeaders
    /\ UNCHANGED <<pending, serviceVars, handlerVars, collectorVars, resultsVars>>

\* page.goto settles: the navigation request went out with the extra headers
\* in effect on the page.
GotoSettled ==
    /\ visit.pc = "goto"
    /\ visit' = [visit EXCEPT !.pc = "navigated", !.sent = extraHeaders]
    /\ UNCHANGED <<extraHeaders, pending, serviceVars, handlerVars, collectorVars, resultsVars>>

\* The handler returns or throws; the page stays as the job leaves it.
VisitEnd ==
    /\ visit.pc \in {"navigated", "failed"}
    /\ visit' = [visit EXCEPT !.pc = "idle"]
    /\ UNCHANGED <<extraHeaders, pending, serviceVars, handlerVars, collectorVars, resultsVars>>

\* Between two jobs the shared page is dropped (a reset, a close event) and
\* getSharedPage opens a new one, which has no extra headers.
PageReplaced ==
    /\ visit.pc = "idle"
    /\ visit.page < MaxSharedPages
    /\ visit' = [visit EXCEPT !.page = @ + 1]
    /\ extraHeaders' = {}
    /\ UNCHANGED <<pending, serviceVars, handlerVars, collectorVars, resultsVars>>

HeadersNext == VisitStart \/ SetHeadersSettled \/ GotoSettled \/ VisitEnd \/ PageReplaced

HeadersSpec == Init /\ [][HeadersNext]_vars

\* C35: per-request page configuration does not leak across jobs: the
\* navigation of every job, fetch, search or maps, goes out with the extra
\* headers of that job's own request and with no header that an earlier
\* job supplied.
C35_NoHeaderLeak == visit.pc = "navigated" => visit.sent = visit.own

\* --------------------------------------------------------- validation view
\* The three job routes with the field of the body each of them requires:
\* `url` for /fetch, `query` for /search and /maps.  The requests of this
\* view carry the configured key, so authenticate passes them on; the route
\* then answers 400 or calls runJob.  The jobs run as in the service view.
RequiredValues == {Undefined, "", "x"}

\* A request: its route and the value of the required field of its body
\* (Undefined when the body or the field is missing).
Posts == [route : JobRoutes, required : RequiredValues]

\* Variant: the route does not look at the field and goes on to runJob.
validateAlwaysPasses(q) == 0

\* if (!url) / if (!query): the status the route answers with, or 0 when it
\* goes on to runJob.
validate(q) == IF q.required \in {Undefined, ""} THEN 400 ELSE 0

\* POST /fetch, /search or /maps from its first line to its first await.
Post(q) ==
    LET status == validate(q) IN
    IF status # 0
    THEN AnswerAtOnce(status)
    ELSE \E j \in Jobs, req \in Requests : req.kind = q.route /\ Submit(j, req)

ValidationNext == (\E q \in Posts : Post(q)) \/ JobNext

ValidationSpec == Init /\ [][ValidationNext]_vars

\* The step answers a request 400 and leaves the queue, its two counters,
\* the jobs and the session as they are.
Refused ==
    /\ answered' = Append(answered, 400)
    /\ UNCHANGED <<queue, pending, jobs, context, sharedPage, driverVars, resets,
                   startSeq, doneSeq>>

\* C36: a request rejected by validation (fetch without url, search or maps
\* without query) is answered with 400 and leaves everything unchanged: in
\* every reachable state the only step such a request can take answers 400,
\* enqueues no job, leaves queueSize and pending as they are, launches no
\* session and touches none.
C36_RejectedUnchanged ==
    \A q \in Posts : q.required \in {Undefined, ""} => ~ENABLED (Post(q) /\ ~Refused)

\* A request has been answered 400 while a job runs on the shared page and
\* another waits in the queue.
C36_Witness ==
    /\ 400 \in Range(answered)
    /\ Holding # {}
    /\ queue # <<>>
    /\ sharedPage # 0 /\ context # 0

\* ------------------------------------------------- service view, continued
\* browserReady as GET /health would report it in this state.
Ready == HealthAnswer.browserReady

\* The step is the one in which getSharedPage records the page it has opened.
AcquiresPage == \E j \in Jobs : jobs[j].pc = "newPage" /\ jobs'[j].pc = "run"

\* The step is the answer of a /reset.
ResetCompletes == resetsDone' = resetsDone + 1

\* The step is the 'close' event of a context.
ContextCloses == \E c \in Ctxs : ctxState[c] = "closing" /\ ctxState'[c] = "closed"

\* C37, before the first job: ready is false as long as no job has started.
C37_FalseAtFirst == startSeq = <<>> => ~Ready

\* C37, after a reset: ready is false once a /reset has answered.
C37_FalseAfterReset == [][ResetCompletes => ~Ready']_vars

\* C37, after a close event: ready is false once a context has emitted close.
C37_FalseAfterClose == [][ContextCloses => ~Ready']_vars

\* C37, until the next job: ready turns true only when a job acquires a page.
C37_TrueByAcquisition == [][(~Ready /\ Ready') => AcquiresPage]_vars

\* C37, no reset or close since: ready turns false only in a step of a /reset
\* (its handler or the close of the page it asked for) or in a close event.
C37_FalseByResetOrClose ==
    [][(Ready /\ ~Ready') =>
          \/ resets' # resets
          \/ ContextCloses
          \/ \E p \in Pages : pageState[p] = "closing" /\ pageState'[p] = "closed"]_vars

====
